---- MODULE Spec2Model ----
(***************************************************************************)
(* Amazon review analysis dashboard: preprocessing (utils.process_data),   *)
(* the schema gates of the pages, and the keyword-match page                *)
(* (pages/3_Keyword_Match.py): category store, JSON persistence, keyword    *)
(* matcher and classification engine.                                       *)
(*                                                                          *)
(* Strings are sequences of Unicode code points.  Floats that matter        *)
(* (ratings) are integers in thousandths, NaN is a separate value;          *)
(* percentages are integers in hundredths.                                  *)
(***************************************************************************)
EXTENDS Integers, Sequences, FiniteSets, TLC

VARIABLES
    pre_in,      \* process_data: the uploaded raw table (df argument)
    pre_out,     \* process_data: not called yet / returned None / returned df
    pre_err,     \* process_data: what st.error showed
    stat_in,     \* statistics page: columns of the uploaded file
    stat_err,    \* statistics page: what st.error showed
    stat_ok,     \* statistics page: validation passed, sections are rendered
    categories,  \* keyword page: the mapping main() holds at the end of a run
    file,        \* categories.json: NoFile or its bytes
    ui,          \* keyword page: st.success / st.warning / st.error of the run
    ev,          \* keyword page: the widget event of the run and its pre-state
    kw_df,       \* keyword page: the uploaded table
    results,     \* analyze_reviews: the results DataFrame
    stats,       \* analyze_reviews: the stats dict
    mk_text,     \* match_keywords: text argument
    mk_keywords, \* match_keywords: keywords argument
    mk_result,   \* match_keywords: returned value
    an_df,       \* aggregation: the caller's table (df)
    an_call,     \* aggregation: the function called, "idle" before the call
    an_out,      \* aggregation: what the call returned
    page_fails,  \* statistics page: the library calls that raise in this run
    page_out     \* statistics page: what each section of the run rendered

preVars  == <<pre_in, pre_out, pre_err, stat_in, stat_err, stat_ok>>
kwVars   == <<categories, file, ui, ev, kw_df, results, stats>>
mkVars   == <<mk_text, mk_keywords, mk_result>>
anVars   == <<an_df, an_call, an_out, page_fails, page_out>>
vars     == <<pre_in, pre_out, pre_err, stat_in, stat_err, stat_ok,
              categories, file, ui, ev, kw_df, results, stats,
              mk_text, mk_keywords, mk_result,
              an_df, an_call, an_out, page_fails, page_out>>

(***************************************************************************)
(* Bounds                                                                   *)
(***************************************************************************)
MaxRows == 2        \* rows of a table given to process_data
MaxReviews == 3     \* rows of a table uploaded to the keyword page
MaxCats == 2        \* categories of a stored mapping given to a classification run
MaxKeywords == 2    \* keywords in a list given to match_keywords
MaxSummaryRows == 4 \* rows of a preprocessed table given to calculate_review_stats
MaxAggRows == 3     \* rows of a table given to analyze_by_group and the trend charts
MaxBulk == 29       \* rows of the most frequent Review Type of an uploaded table
MaxPageRows == 2    \* rows of a file uploaded to the statistics page

(***************************************************************************)
(* Python values                                                            *)
(***************************************************************************)
\* A cell value: a number (n, in thousandths), the float NaN, a str (s), None.
Num(n)  == [t |-> "num",  n |-> n, s |-> <<>>]
NaN     == [t |-> "nan",  n |-> 0, s |-> <<>>]
Str(s)  == [t |-> "str",  n |-> 0, s |-> s]
None    == [t |-> "none", n |-> 0, s |-> <<>>]

\* str.strip() with no argument removes leading and trailing whitespace.
Whitespace == {9, 10, 11, 12, 13, 32}

RECURSIVE lstrip(_)
lstrip(s) == IF s # <<>> /\ Head(s) \in Whitespace THEN lstrip(Tail(s)) ELSE s

RECURSIVE rstrip(_)
rstrip(s) ==
    IF s # <<>> /\ s[Len(s)] \in Whitespace
    THEN rstrip(SubSeq(s, 1, Len(s) - 1))
    ELSE s

strip(s) == rstrip(lstrip(s))

\* str.lower() on the code points used here: ASCII and Latin-1 capitals.
lower_char(c) ==
    IF c \in 65..90 THEN c + 32
    ELSE IF c \in 192..222 /\ c # 215 THEN c + 32
    ELSE c

\* A function with domain 1..n as an explicit sequence (evaluated once).
AsSeq(f) == SubSeq(f, 1, Len(f))

lower(s) == AsSeq([i \in 1..Len(s) |-> lower_char(s[i])])

\* str.split(sep) for a one-character separator: always at least one piece.
RECURSIVE split(_, _)
split(s, sep) ==
    IF \A i \in 1..Len(s) : s[i] # sep
    THEN <<s>>
    ELSE LET i == CHOOSE k \in 1..Len(s) :
                      s[k] = sep /\ \A j \in 1..(k - 1) : s[j] # sep
         IN <<SubSeq(s, 1, i - 1)>> \o split(SubSeq(s, i + 1, Len(s)), sep)

\* The `in` operator on str: needle occurs as a contiguous substring.
contains(text, needle) ==
    \E off \in 0..(Len(text) - Len(needle)) :
        SubSeq(text, off + 1, off + Len(needle)) = needle

(***************************************************************************)
(* Number parsing: the decimal literals float() and pd.to_numeric accept    *)
(* among the inputs used here (digits with at most one '.', at most three   *)
(* fraction digits); everything else is not a number.                       *)
(***************************************************************************)
Digits == 48..57

RECURSIVE digits_value(_)
digits_value(s) ==
    IF s = <<>> THEN 0
    ELSE digits_value(SubSeq(s, 1, Len(s) - 1)) * 10 + (s[Len(s)] - 48)

is_digits(s) == \A i \in 1..Len(s) : s[i] \in Digits

parse_parts(s, parts) ==
        IF Len(parts) = 1 /\ s # <<>> /\ is_digits(s)
        THEN [ok |-> TRUE, n |-> digits_value(s) * 1000]
        ELSE IF Len(parts) = 2 /\ is_digits(parts[1]) /\ is_digits(parts[2])
                /\ Len(parts[1]) + Len(parts[2]) > 0 /\ Len(parts[2]) <= 3
        THEN [ok |-> TRUE,
              n  |-> digits_value(parts[1]) * 1000
                     + digits_value(parts[2])
                       * (CASE Len(parts[2]) = 0 -> 0
                            [] Len(parts[2]) = 1 -> 100
                            [] Len(parts[2]) = 2 -> 10
                            [] OTHER             -> 1)]
        ELSE [ok |-> FALSE, n |-> 0]

parse_stripped(s) == parse_parts(s, split(s, 46))

parse_number(raw) == parse_stripped(strip(raw))

\* pd.to_numeric(x, errors='coerce') on one cell.
parsed_or_nan(p) == IF p.ok THEN Num(p.n) ELSE NaN

to_numeric(x) ==
    CASE x.t = "num"  -> x
      [] x.t = "nan"  -> NaN
      [] x.t = "none" -> NaN
      [] x.t = "str"  -> parsed_or_nan(parse_number(x.s))

\* float(x): raised = TRUE stands for ValueError / TypeError.
parsed_or_raise(p) ==
    IF p.ok THEN [raised |-> FALSE, val |-> Num(p.n)]
    ELSE [raised |-> TRUE, val |-> NaN]

float(x) ==
    CASE x.t = "num"  -> [raised |-> FALSE, val |-> x]
      [] x.t = "nan"  -> [raised |-> FALSE, val |-> NaN]
      [] x.t = "none" -> [raised |-> TRUE,  val |-> NaN]
      [] x.t = "str"  -> parsed_or_raise(parse_number(x.s))

\* Comparisons with NaN are all false.
ge(x, k) == x.t = "num" /\ x.n >= k
eq(x, k) == x.t = "num" /\ x.n = k

\* Mutant: the boundary r = 4 is excluded from positive.
\* The try block of lines 37-44 on the outcome f of float(rating); the
\* except branch of lines 45-46 when float raised.
review_type_of(f, positive_from) ==
    IF f.raised THEN "unknown"
    ELSE IF ge(f.val, positive_from) THEN "positive"
    ELSE IF eq(f.val, 3000) THEN "neutral"
    ELSE "negative"

get_review_type_gt(rating) == review_type_of(float(rating), 4001)

get_review_type(rating) == review_type_of(float(rating), 4000)

\* Series.astype(str) on one cell of a text column.
astype_str(x) ==
    CASE x.t = "str"  -> x.s
      [] x.t = "nan"  -> <<110, 97, 110>>          \* "nan"
      [] x.t = "none" -> <<78, 111, 110, 101>>     \* "None"
      [] x.t = "num"  -> <<35>>                     \* not used on text inputs

(***************************************************************************)
(* process_data                                                             *)
(***************************************************************************)
required_columns == <<"Asin", "Title", "Content", "Model", "Rating", "Date">>

Range(f) == {f[i] : i \in DOMAIN f}

\* Mutant: every absent column is reported, in required order.
RECURSIVE missing_all(_, _)
missing_all(cols, req) ==
    IF req = <<>> THEN <<>>
    ELSE (IF Head(req) \in cols THEN <<>> ELSE <<Head(req)>>)
         \o missing_all(cols, Tail(req))

\* The loop of lines 11-14: st.error for, and return at, the first absent column.
RECURSIVE first_missing(_, _)
first_missing(cols, req) ==
    IF req = <<>> THEN <<>>
    ELSE IF Head(req) \notin cols THEN <<Head(req)>>
    ELSE first_missing(cols, Tail(req))

processed_row(i, content, rating) ==
    [ID          |-> i,
     Content     |-> strip(astype_str(content)),
     Rating      |-> rating,
     ReviewType  |-> get_review_type(rating)]

process_row(i, row) == processed_row(i, row.Content, to_numeric(row.Rating))

process_data(df) ==
    LET miss == first_missing(df.columns, required_columns)
    IN  IF miss # <<>>
        THEN [error |-> miss, df |-> [state |-> "none", rows |-> <<>>]]
        ELSE [error |-> <<>>,
              df    |-> [state |-> "df",
                         rows  |-> [i \in 1..Len(df.rows) |->
                                       process_row(i, df.rows[i])]]]

(***************************************************************************)
(* Statistics page: the schema gate of main()                               *)
(***************************************************************************)
stat_required_columns ==
    <<"ID", "Asin", "Title", "Content", "Model", "Rating", "Date", "Review Type">>

(***************************************************************************)
(* Inputs of the preprocessing / schema specification                       *)
(***************************************************************************)
RawRatings ==
    { Num(1000), Num(2000), Num(2999), Num(3000), Num(3500), Num(3999),
      Num(4000), Num(5000),
      Str(<<52>>),                \* "4"
      Str(<<51, 46, 48>>),        \* "3.0"
      Str(<<97, 98, 99>>),        \* "abc"
      None }

RawContents == { Str(<<32, 111, 107, 32>>), NaN }      \* " ok ", empty cell

RawRows == [Rating : RawRatings, Content : RawContents]

SeqsUpTo(S, n) == UNION { [1..k -> S] : k \in 0..n }

AllRequired == Range(required_columns)

\* Complete tables with any rows; tables with any column subset and one row.
PreTables ==
    { [columns |-> AllRequired \cup x, rows |-> r] :
          x \in SUBSET {"Extra"}, r \in SeqsUpTo(RawRows, MaxRows) }
    \cup
    { [columns |-> c, rows |-> <<[Rating |-> Num(5000), Content |-> NaN]>>] :
          c \in SUBSET (AllRequired \cup {"Extra"}) }

StatColumnSets == SUBSET (Range(stat_required_columns) \cup {"Extra"})

\* A session uploads one table to the preprocessing page or one file to the
\* statistics page; the other page then sees the empty table.
InitPre ==
    /\ \/ pre_in \in PreTables /\ stat_in = {}
       \/ pre_in = [columns |-> {}, rows |-> <<>>] /\ stat_in \in StatColumnSets
    /\ pre_out = [state |-> "idle", rows |-> <<>>]
    /\ pre_err = <<>>
    /\ stat_err = <<>>
    /\ stat_ok = "idle"

\* One call of process_data(df) on the uploaded table.
ProcessData ==
    /\ pre_out.state = "idle"
    /\ \E r \in {process_data(pre_in)} :
           /\ pre_out' = r.df
           /\ pre_err' = r.error
    /\ UNCHANGED <<pre_in, stat_in, stat_err, stat_ok>>

\* One run of the statistics page with the uploaded file: lines 222-225.
StatisticsUpload ==
    /\ stat_ok = "idle"
    /\ IF \A i \in 1..Len(stat_required_columns) :
              stat_required_columns[i] \in stat_in
       THEN stat_ok' = "pass" /\ stat_err' = <<>>
       ELSE stat_ok' = "fail" /\ stat_err' = stat_required_columns
    /\ UNCHANGED <<pre_in, pre_out, pre_err, stat_in>>

(***************************************************************************)
(* Python dict with str keys and str values: insertion-ordered items        *)
(***************************************************************************)
has_key(d, k) == \E i \in 1..Len(d) : d[i].name = k

index_of(d, k) == CHOOSE i \in 1..Len(d) : d[i].name = k

get_item(d, k) == d[index_of(d, k)].keywords

\* Mutant: a key that is already present keeps its value.
set_item_keep(d, k, v) ==
    IF has_key(d, k) THEN d
    ELSE Append(d, [name |-> k, keywords |-> v])

\* d[k] = v: an existing key keeps its position, a new key goes last.
set_item(d, k, v) ==
    IF has_key(d, k)
    THEN [d EXCEPT ![index_of(d, k)] = [name |-> k, keywords |-> v]]
    ELSE Append(d, [name |-> k, keywords |-> v])

\* del d[k]
del_item(d, k) == SelectSeq(d, LAMBDA it : it.name # k)

\* d1 == d2 on dicts: same keys with the same values, in any order.
dict_eq(a, b) ==
    /\ Len(a) = Len(b)
    /\ \A i \in 1..Len(a) :
          has_key(b, a[i].name) /\ get_item(b, a[i].name) = a[i].keywords

(***************************************************************************)
(* json.dump(categories, f, ensure_ascii=False, indent=2) on a file opened  *)
(* with encoding='utf-8', and json.load on the file read back               *)
(***************************************************************************)
hex_digit(n) == IF n < 10 THEN 48 + n ELSE 87 + n

\* Mutant: the quotation mark is written without its backslash.
escape_char_noquote(c) ==
    CASE c = 92 -> <<92, 92>>
      [] c = 10 -> <<92, 110>>
      [] c = 13 -> <<92, 114>>
      [] c = 9  -> <<92, 116>>
      [] c = 8  -> <<92, 98>>
      [] c = 12 -> <<92, 102>>
      [] c < 32 /\ c \notin {8, 9, 10, 12, 13}
                -> <<92, 117, 48, 48, hex_digit(c \div 16), hex_digit(c % 16)>>
      [] OTHER  -> <<c>>

\* json.encoder.py_encode_basestring: ", \ and control characters are escaped,
\* everything else (non-ASCII included) is written as is.
escape_char(c) ==
    CASE c = 34 -> <<92, 34>>
      [] c = 92 -> <<92, 92>>
      [] c = 10 -> <<92, 110>>
      [] c = 13 -> <<92, 114>>
      [] c = 9  -> <<92, 116>>
      [] c = 8  -> <<92, 98>>
      [] c = 12 -> <<92, 102>>
      [] c < 32 /\ c \notin {8, 9, 10, 12, 13}
                -> <<92, 117, 48, 48, hex_digit(c \div 16), hex_digit(c % 16)>>
      [] OTHER  -> <<c>>

NeedsEscape(c) == c = 34 \/ c = 92 \/ c < 32

\* The escaped form of s[lo..hi]; a stretch without special characters is
\* copied as it is.
RECURSIVE escape_range(_, _, _)
escape_range(s, lo, hi) ==
    IF \A i \in lo..hi : ~NeedsEscape(s[i]) THEN SubSeq(s, lo, hi)
    ELSE IF lo = hi THEN escape_char(s[lo])
    ELSE LET mid == (lo + hi) \div 2
         IN  escape_range(s, lo, mid) \o escape_range(s, mid + 1, hi)

escape_all(s) == escape_range(s, 1, Len(s))

encode_basestring(s) == <<34>> \o escape_all(s) \o <<34>>

\* One item per line, indented by two spaces, "key": "value", comma-separated.
dump_item(d, i) ==
    <<10, 32, 32>>
    \o encode_basestring(d[i].name) \o <<58, 32>>
    \o encode_basestring(d[i].keywords)
    \o (IF i < Len(d) THEN <<44>> ELSE <<>>)

RECURSIVE dump_items(_, _)
dump_items(d, i) ==
    IF i > Len(d) THEN <<>> ELSE dump_item(d, i) \o dump_items(d, i + 1)

json_dumps(d) ==
    IF d = <<>> THEN <<123, 125>>
    ELSE <<123>> \o dump_items(d, 1) \o <<10, 125>>

\* The UTF-8 bytes of one code point.
utf8_char(c) ==
    IF c < 128 THEN <<c>>
    ELSE IF c < 2048 THEN <<192 + (c \div 64), 128 + (c % 64)>>
    ELSE IF c < 65536
    THEN <<224 + (c \div 4096), 128 + ((c \div 64) % 64), 128 + (c % 64)>>
    ELSE <<240 + (c \div 262144), 128 + ((c \div 4096) % 64),
           128 + ((c \div 64) % 64), 128 + (c % 64)>>

\* The bytes of s[lo..hi]; an ASCII stretch is copied as it is.
RECURSIVE utf8_encode_range(_, _, _)
utf8_encode_range(s, lo, hi) ==
    IF \A i \in lo..hi : s[i] < 128 THEN SubSeq(s, lo, hi)
    ELSE IF lo = hi THEN utf8_char(s[lo])
    ELSE LET mid == (lo + hi) \div 2
         IN  utf8_encode_range(s, lo, mid) \o utf8_encode_range(s, mid + 1, hi)

utf8_encode(s) == utf8_encode_range(s, 1, Len(s))

IsContinuation(byte) == byte \in 128..191

\* The code point whose UTF-8 encoding starts at byte i.
utf8_char_at(b, i) ==
    LET h == b[i]
    IN  IF h < 128 THEN h
        ELSE IF h < 224 THEN (h - 192) * 64 + (b[i + 1] - 128)
        ELSE IF h < 240
        THEN (h - 224) * 4096 + (b[i + 1] - 128) * 64 + (b[i + 2] - 128)
        ELSE (h - 240) * 262144 + (b[i + 1] - 128) * 4096
             + (b[i + 2] - 128) * 64 + (b[i + 3] - 128)

\* Decoding of well-formed UTF-8 (the file is only ever written by
\* save_categories): b[lo..hi] holds whole characters; an ASCII stretch is
\* copied as it is, otherwise the stretch is cut at a character boundary.
RECURSIVE utf8_decode_range(_, _, _)
utf8_decode_range(b, lo, hi) ==
    IF \A i \in lo..hi : b[i] < 128 THEN SubSeq(b, lo, hi)
    ELSE IF \A i \in (lo + 1)..hi : IsContinuation(b[i])
    THEN <<utf8_char_at(b, lo)>>
    ELSE LET half == (lo + hi + 1) \div 2
             cut  == IF \E i \in half..hi : ~IsContinuation(b[i])
                     THEN CHOOSE i \in half..hi :
                              /\ ~IsContinuation(b[i])
                              /\ \A k \in half..(i - 1) : IsContinuation(b[k])
                     ELSE CHOOSE i \in (lo + 1)..half :
                              /\ ~IsContinuation(b[i])
                              /\ \A k \in (i + 1)..half : IsContinuation(b[k])
         IN  utf8_decode_range(b, lo, cut - 1) \o utf8_decode_range(b, cut, hi)

utf8_decode(b) == utf8_decode_range(b, 1, Len(b))

\* --- json.load, for objects whose keys and values are strings ---
JsonWhitespace == {9, 10, 13, 32}

\* The character at position i, or -1 past the end.
at(t, i) == IF i \in 1..Len(t) THEN t[i] ELSE -1

is_hex(c) == c \in (48..57) \cup (97..102) \cup (65..70)

hex_value(c) ==
    IF c \in 48..57 THEN c - 48 ELSE IF c \in 97..102 THEN c - 87 ELSE c - 55

SimpleEscapes == {34, 92, 47, 98, 102, 110, 114, 116}

unescape(e) ==
    CASE e = 98  -> 8
      [] e = 102 -> 12
      [] e = 110 -> 10
      [] e = 114 -> 13
      [] e = 116 -> 9
      [] OTHER   -> e

\* The scanner as a machine reading the text left to right.  mode says what
\* is expected at position i: "object" the opening brace, "first" a key or the
\* closing brace, "key" / "value" the rest of a string, "colon", "valstart",
\* "sep" a comma or the closing brace, "nextkey", "end" only whitespace;
\* "error" stands for JSONDecodeError.
ScanStart ==
    [mode |-> "object", i |-> 1, key |-> <<>>, acc |-> <<>>, out |-> <<>>]

scan_error(st) == [st EXCEPT !.mode = "error"]

\* The end of the stretch of plain characters that starts at position i.
chunk_end(t, i) ==
    CHOOSE j \in i..(Len(t) + 1) :
        /\ j = Len(t) + 1 \/ NeedsEscape(t[j])
        /\ \A k \in i..(j - 1) : ~NeedsEscape(t[k])

\* Inside a string: the closing quote, an escape sequence, or a stretch of
\* plain characters (control characters are rejected).
scan_in_string(t, st, c) ==
    IF c = 34
    THEN IF st.mode = "key"
         THEN [st EXCEPT !.mode = "colon", !.i = @ + 1, !.key = st.acc,
                         !.acc = <<>>]
         ELSE [st EXCEPT !.mode = "sep", !.i = @ + 1, !.acc = <<>>,
                         !.out = set_item(@, st.key, st.acc)]
    ELSE IF c < 32 THEN scan_error(st)
    ELSE IF c = 92
    THEN LET e == at(t, st.i + 1)
         IN  IF e \in SimpleEscapes
             THEN [st EXCEPT !.i = @ + 2, !.acc = Append(@, unescape(e))]
             ELSE IF e = 117 /\ \A k \in 2..5 : is_hex(at(t, st.i + k))
             THEN [st EXCEPT !.i = @ + 6,
                             !.acc = Append(@, hex_value(t[st.i + 2]) * 4096
                                               + hex_value(t[st.i + 3]) * 256
                                               + hex_value(t[st.i + 4]) * 16
                                               + hex_value(t[st.i + 5]))]
             ELSE scan_error(st)
    ELSE LET j == chunk_end(t, st.i)
         IN  [st EXCEPT !.i = j, !.acc = @ \o SubSeq(t, st.i, j - 1)]

\* One step of the scanner; nothing changes at the end of the text or after
\* an error.
scan_step(t, st) ==
    LET c == at(t, st.i)
    IN  IF st.i > Len(t) \/ st.mode = "error" THEN st
        ELSE IF st.mode \in {"key", "value"} THEN scan_in_string(t, st, c)
        ELSE IF c \in JsonWhitespace THEN [st EXCEPT !.i = @ + 1]
        ELSE CASE st.mode = "object" ->
                    IF c = 123 THEN [st EXCEPT !.mode = "first", !.i = @ + 1]
                    ELSE scan_error(st)
               [] st.mode = "first" ->
                    IF c = 34 THEN [st EXCEPT !.mode = "key", !.i = @ + 1]
                    ELSE IF c = 125 THEN [st EXCEPT !.mode = "end", !.i = @ + 1]
                    ELSE scan_error(st)
               [] st.mode = "nextkey" ->
                    IF c = 34 THEN [st EXCEPT !.mode = "key", !.i = @ + 1]
                    ELSE scan_error(st)
               [] st.mode = "colon" ->
                    IF c = 58 THEN [st EXCEPT !.mode = "valstart", !.i = @ + 1]
                    ELSE scan_error(st)
               [] st.mode = "valstart" ->
                    IF c = 34 THEN [st EXCEPT !.mode = "value", !.i = @ + 1]
                    ELSE scan_error(st)
               [] st.mode = "sep" ->
                    IF c = 44 THEN [st EXCEPT !.mode = "nextkey", !.i = @ + 1]
                    ELSE IF c = 125 THEN [st EXCEPT !.mode = "end", !.i = @ + 1]
                    ELSE scan_error(st)
               [] OTHER -> scan_error(st)

\* 2^n steps of the scanner.
RECURSIVE scan_steps(_, _, _)
scan_steps(t, st, n) ==
    IF n = 0 THEN scan_step(t, st)
    ELSE LET half == scan_steps(t, st, n - 1)
         IN  IF half.mode = "error" \/ half.i > Len(t) THEN half
             ELSE scan_steps(t, half, n - 1)

\* The least n with 2^n >= k.
RECURSIVE log2_ceil(_)
log2_ceil(k) == IF k <= 1 THEN 0 ELSE 1 + log2_ceil((k + 1) \div 2)

\* The parsed object when the scanner stopped after the closing brace,
\* JSONDecodeError otherwise.
scan_result(final) ==
    IF final.mode = "end"
    THEN [raised |-> FALSE, value |-> final.out]
    ELSE [raised |-> TRUE, value |-> <<>>]

json_loads(t) == scan_result(scan_steps(t, ScanStart, log2_ceil(Len(t))))

NoFile == <<-1>>

\* os.path.exists is false: {} ; otherwise the parsed file.
load_categories(f) ==
    IF f = NoFile THEN [raised |-> FALSE, value |-> <<>>]
    ELSE json_loads(utf8_decode(f))

\* The bytes categories.json holds after save_categories(d).
save_categories(d) == utf8_encode(json_dumps(d))

(***************************************************************************)
(* PRESET_CATEGORIES, as code points.  The four names are the Chinese for   *)
(* children or teenagers / pregnant or nursing women / vegetarians or       *)
(* healthy eaters / fitness and sports people.                              *)
(***************************************************************************)
\* keywords 1: "kids,...,my son" (14 keywords)
preset_name_1 == <<20799, 31461, 25110, 38738, 23569, 24180>>

preset_keywords_1 ==
    << 107, 105, 100, 115, 44, 103, 105, 114, 108, 44, 103, 105, 114, 108,
       115, 44, 98, 111, 121, 44, 98, 111, 121, 115, 44, 99, 104, 105,
       108, 100, 114, 101, 110, 44, 116, 101, 101, 110, 44, 112, 105, 99,
       107, 121, 32, 101, 97, 116, 101, 114, 44, 99, 104, 105, 108, 100,
       45, 102, 114, 105, 101, 110, 100, 108, 121, 44, 98, 97, 98, 121,
       44, 115, 117, 103, 97, 114, 32, 99, 111, 97, 116, 105, 110, 103,
       44, 99, 97, 110, 100, 121, 45, 108, 105, 107, 101, 44, 109, 121,
       32, 100, 97, 117, 103, 104, 116, 101, 114, 44, 109, 121, 32, 115,
       111, 110 >>

\* keywords 2: "pregnant,...,label says do not use during pregnancy" (10 keywords)
preset_name_2 == <<23381, 22919, 25110, 21754, 20083, 26399, 22899, 24615>>

preset_keywords_2 ==
    << 112, 114, 101, 103, 110, 97, 110, 116, 44, 112, 114, 101, 103, 110,
       97, 110, 99, 121, 44, 110, 117, 114, 115, 105, 110, 103, 44, 98,
       114, 101, 97, 115, 116, 102, 101, 101, 100, 105, 110, 103, 44, 109,
       101, 110, 115, 116, 114, 117, 97, 108, 44, 112, 101, 114, 105, 111,
       100, 44, 104, 111, 114, 109, 111, 110, 97, 108, 32, 115, 117, 112,
       112, 111, 114, 116, 44, 112, 114, 101, 110, 97, 116, 97, 108, 44,
       112, 111, 115, 116, 112, 97, 114, 116, 117, 109, 44, 108, 97, 98,
       101, 108, 32, 115, 97, 121, 115, 32, 100, 111, 32, 110, 111, 116,
       32, 117, 115, 101, 32, 100, 117, 114, 105, 110, 103, 32, 112, 114,
       101, 103, 110, 97, 110, 99, 121 >>

\* keywords 3: "vegan,...,stevia" (12 keywords)
preset_name_3 == <<32032, 39135, 32773, 25110, 20581, 24247, 39278, 39135, 32773>>

preset_keywords_3 ==
    << 118, 101, 103, 97, 110, 44, 118, 101, 103, 101, 116, 97, 114, 105,
       97, 110, 44, 112, 108, 97, 110, 116, 45, 98, 97, 115, 101, 100, 44,
       110, 111, 32, 97, 114, 116, 105, 102, 105, 99, 105, 97, 108, 44,
       110, 111, 32, 103, 108, 117, 116, 101, 110, 44, 110, 111, 32, 104,
       105, 103, 104, 32, 102, 114, 117, 99, 116, 111, 115, 101, 32, 99,
       111, 114, 110, 32, 115, 121, 114, 117, 112, 44, 111, 114, 103, 97,
       110, 105, 99, 44, 110, 111, 110, 45, 71, 77, 79, 44, 110, 97, 116,
       117, 114, 97, 108, 32, 105, 110, 103, 114, 101, 100, 105, 101, 110,
       116, 115, 44, 115, 117, 103, 97, 114, 45, 102, 114, 101, 101, 44,
       108, 111, 119, 32, 115, 117, 103, 97, 114, 44, 115, 116, 101, 118,
       105, 97 >>

\* keywords 4: "fitness,...,Boosts strength" (13 keywords)
preset_name_4 == <<20581, 36523, 36816, 21160, 20154, 32676>>

preset_keywords_4 ==
    << 102, 105, 116, 110, 101, 115, 115, 44, 101, 120, 101, 114, 99, 105,
       115, 101, 44, 116, 114, 97, 105, 110, 105, 110, 103, 44, 97, 116,
       104, 108, 101, 116, 101, 44, 119, 111, 114, 107, 111, 117, 116, 44,
       103, 121, 109, 44, 115, 112, 111, 114, 116, 115, 44, 109, 117, 115,
       99, 108, 101, 44, 115, 116, 114, 101, 110, 103, 116, 104, 44, 101,
       110, 100, 117, 114, 97, 110, 99, 101, 44, 112, 114, 111, 116, 101,
       105, 110, 44, 66, 111, 111, 115, 116, 115, 32, 101, 110, 100, 117,
       114, 97, 110, 99, 101, 44, 66, 111, 111, 115, 116, 115, 32, 115,
       116, 114, 101, 110, 103, 116, 104 >>

PRESET_CATEGORIES ==
    << [name |-> preset_name_1, keywords |-> preset_keywords_1],
       [name |-> preset_name_2, keywords |-> preset_keywords_2],
       [name |-> preset_name_3, keywords |-> preset_keywords_3],
       [name |-> preset_name_4, keywords |-> preset_keywords_4] >>

preset_keywords(name) ==
    PRESET_CATEGORIES[CHOOSE k \in 1..Len(PRESET_CATEGORIES) :
                          PRESET_CATEGORIES[k].name = name].keywords

(***************************************************************************)
(* Keyword matcher                                                          *)
(***************************************************************************)
\* pd.isna on one cell.
isna(x) == x.t \in {"nan", "none"}

\* Mutant: the keyword is compared without being lower-cased.
keyword_hit_cased(text, keyword) == contains(text, strip(keyword))

\* keyword.lower().strip() in text
keyword_hit(text, keyword) == contains(text, strip(lower(keyword)))

\* any(... for keyword in keywords): stops at the first hit.
RECURSIVE any_keyword(_, _)
any_keyword(text, keywords) ==
    IF keywords = <<>> THEN FALSE
    ELSE IF keyword_hit(text, Head(keywords)) THEN TRUE
    ELSE any_keyword(text, Tail(keywords))

match_keywords(text, keywords) ==
    IF isna(text) THEN FALSE
    ELSE any_keyword(lower(text.s), keywords)

(***************************************************************************)
(* Classification engine: analyze_reviews                                   *)
(***************************************************************************)
\* [k.strip() for k in categories[category].split(',')]
category_keywords(s) ==
    LET parts == split(s, 44)
    IN  AsSeq([i \in 1..Len(parts) |-> strip(parts[i])])

\* f'Is {category}'
column_name(category) == <<73, 115, 32>> \o category

\* df['Content'].apply(lambda x: match_keywords(x, keywords))
match_column(df, keywords) ==
    AsSeq([i \in 1..Len(df.rows) |->
              match_keywords(df.rows[i].Content, keywords)])

\* results[name] = values: replaces a column of that name or appends one.
set_column(cols, name, values) ==
    IF \E i \in 1..Len(cols) : cols[i].name = name
    THEN [i \in 1..Len(cols) |->
             IF cols[i].name = name
             THEN [name |-> name, values |-> values] ELSE cols[i]]
    ELSE Append(cols, [name |-> name, values |-> values])

\* Mutant: the keyword list is extended from one category to the next
\* instead of being rebuilt.
RECURSIVE add_columns_carry(_, _, _, _)
add_columns_carry(cols, df, cats, carried) ==
    IF cats = <<>> THEN cols
    ELSE LET keywords == carried \o category_keywords(Head(cats).keywords)
         IN  add_columns_carry(
                 set_column(cols, column_name(Head(cats).name),
                            match_column(df, keywords)),
                 df, Tail(cats), keywords)

add_columns_mutant(cols, df, cats) == add_columns_carry(cols, df, cats, <<>>)

\* The loop of lines 51-55.
RECURSIVE add_columns(_, _, _)
add_columns(cols, df, cats) ==
    IF cats = <<>> THEN cols
    ELSE LET keywords == category_keywords(Head(cats).keywords)
         IN  add_columns(
                 set_column(cols, column_name(Head(cats).name),
                            match_column(df, keywords)),
                 df, Tail(cats))

column_values(cols, name) ==
    cols[CHOOSE i \in 1..Len(cols) : cols[i].name = name].values

\* Series.sum() of a boolean column.
RECURSIVE sum_from(_, _)
sum_from(col, i) ==
    IF i > Len(col) THEN 0
    ELSE (IF col[i] THEN 1 ELSE 0) + sum_from(col, i + 1)

sum_true(col) == sum_from(col, 1)

\* Mutant: the quotient is truncated instead of rounded.
round_ratio_trunc(num, den) == num \div den

\* num / den rounded to the nearest integer, ties to even (num >= 0, den > 0).
round_ratio(num, den) ==
    LET q == num \div den
        r == num % den
    IN  IF 2 * r < den THEN q
        ELSE IF 2 * r > den THEN q + 1
        ELSE IF q % 2 = 0 THEN q ELSE q + 1

\* round(matched / len(df) * 100, 2), in hundredths; NaN for 0 / 0 in
\* floating point.
percentage(matched, n) ==
    IF n = 0 THEN NaN ELSE Num(round_ratio(matched * 10000, n))

\* The body of the loop of lines 59-64.
stat_entry(df, cols, category) ==
    LET matched == sum_true(column_values(cols, column_name(category)))
    IN  [name |-> category, matched |-> matched,
         percentage |-> percentage(matched, Len(df.rows))]

NoResults ==
    [state |-> "none", ID |-> <<>>, Content |-> <<>>,
     OriginalReviewType |-> <<>>, Is |-> <<>>]

\* div0 is what matched / len(df) does on a table without rows: "raise"
\* (ZeroDivisionError on a Python int) or "nan" (numpy scalar division).
\* Lines 57-66 on the table cols built by lines 44-55.
analyzed(cols, df, cats, div0) ==
    IF cats # <<>> /\ Len(df.rows) = 0 /\ div0 = "raise"
    THEN [raised |-> TRUE, results |-> NoResults, stats |-> <<>>]
    ELSE [raised  |-> FALSE,
          results |->
              [state   |-> "ok",
               ID      |-> [i \in 1..Len(df.rows) |-> df.rows[i].ID],
               Content |-> [i \in 1..Len(df.rows) |-> df.rows[i].Content],
               OriginalReviewType |->
                   [i \in 1..Len(df.rows) |-> df.rows[i].ReviewType],
               Is      |-> cols],
          stats   |-> [k \in 1..Len(cats) |->
                          stat_entry(df, cols, cats[k].name)]]

analyze_reviews(df, cats, div0) ==
    analyzed(add_columns(<<>>, df, cats), df, cats, div0)

(***************************************************************************)
(* Keyword page: one run of main()                                          *)
(***************************************************************************)
NoEvent == [op |-> "none", name |-> <<>>, text |-> <<>>]

NoUpload == [present |-> FALSE, columns |-> {}, rows |-> <<>>]

kw_required_columns == <<"ID", "Content", "Review Type">>

RunResult(c, f, msgs, res, st) ==
    [categories |-> c, file |-> f, ui |-> msgs, results |-> res, stats |-> st]

\* Lines 260-323 on the outcome a of analyze_reviews: the tables are shown,
\* or the except branch reports the error.
show_analysis(a, c, f, msgs) ==
    IF a.raised
    THEN RunResult(c, f, msgs \cup {"upload_ok", "error_processing"},
                   NoResults, <<>>)
    ELSE RunResult(c, f, msgs \cup {"upload_ok"}, a.results, a.stats)

\* Lines 245-323: the upload section.
upload_section(c, f, msgs, upload, div0) ==
    IF ~upload.present THEN RunResult(c, f, msgs, NoResults, <<>>)
    ELSE IF ~(\A k \in 1..Len(kw_required_columns) :
                  kw_required_columns[k] \in upload.columns)
    THEN RunResult(c, f, msgs \cup {"error_schema"}, NoResults, <<>>)
    ELSE show_analysis(analyze_reviews(upload, c, div0), c, f, msgs)

\* Mutant: the text typed into one text area reaches every category.
edited_categories_all(c, e) ==
    AsSeq([i \in 1..Len(c) |->
              [name     |-> c[i].name,
               keywords |-> IF e.op = "edit" THEN e.text ELSE c[i].keywords]])

\* Lines 209-230: every text area returns its keyword string, the one edited
\* in this run returns the new text, and categories[category] takes it.
edited_categories(c, e) ==
    AsSeq([i \in 1..Len(c) |->
              [name     |-> c[i].name,
               keywords |-> IF e.op = "edit" /\ e.name = c[i].name
                            THEN e.text ELSE c[i].keywords]])

\* Mutant: an edited keyword string is kept in memory and never written.
save_edited_never(edited, c, f, msgs, upload, div0) ==
    upload_section(edited, f, msgs, upload, div0)

\* save_categories runs only when a keyword string differs from the loaded one.
save_edited(edited, c, f, msgs, upload, div0) ==
    upload_section(edited,
                   IF dict_eq(edited, c) THEN f ELSE save_categories(edited),
                   msgs, upload, div0)

\* Lines 189-325: the text areas (one of them possibly edited), the save of
\* edited keyword strings, then the upload section.
edit_section(c, f, e, msgs, upload, div0) ==
    IF c = <<>> THEN RunResult(c, f, msgs \cup {"info_empty"}, NoResults, <<>>)
    ELSE save_edited(edited_categories(c, e), c, f, msgs, upload, div0)

LoadFailed(f) == RunResult(<<>>, f, {"exception"}, NoResults, <<>>)

\* What a button handler leaves: saved says that it called
\* save_categories(c) and st.rerun().
Pressed(saved, c, msgs) == [saved |-> saved, c |-> c, msgs |-> msgs]

\* Mutant: the duplicate check is missing, the name is always (re)set to "".
add_category_always(c, name) ==
    Pressed(TRUE, set_item(c, name, <<>>), {"add_success"})

\* Lines 164-171, the button pressed with a non-empty name.
add_category(c, name) ==
    IF ~has_key(c, name)
    THEN Pressed(TRUE, set_item(c, name, <<>>), {"add_success"})
    ELSE Pressed(FALSE, c, {"warning_exists"})

\* The buttons of one run: import (134-138), add (164-171), delete (229-232).
\* A changed text area is not a button: it is handled by edit_section.
buttons(c, e) ==
    IF e.op = "import"
    THEN Pressed(TRUE, set_item(c, e.name, preset_keywords(e.name)),
                 {"import_success"})
    ELSE IF e.op = "add" /\ e.name # <<>> THEN add_category(c, e.name)
    ELSE IF e.op = "delete" /\ has_key(c, e.name)
    THEN Pressed(TRUE, del_item(c, e.name), {})
    ELSE Pressed(FALSE, c, {})

\* The rest of the run on the mapping ld in memory, the file being f.
sections(ld, f, e, msgs, upload, div0) ==
    IF ld.raised THEN LoadFailed(f)
    ELSE edit_section(ld.value, f, e, msgs, upload, div0)

\* st.rerun(): the script starts over on the file f just written, no button
\* is pressed and every text area shows the keyword string just loaded.
\* Without st.rerun() the run goes on with the mapping in memory.
rerun(p, f, e, upload, div0) ==
    sections(IF p.saved THEN load_categories(f)
             ELSE [raised |-> FALSE, value |-> p.c],
             f, IF p.saved THEN NoEvent ELSE e, p.msgs, upload, div0)

after_buttons(p, f, e, upload, div0) ==
    rerun(p, IF p.saved THEN save_categories(p.c) ELSE f, e, upload, div0)

\* Line 70, categories = load_categories(): an exception leaves the run.
loaded(ld, f, e, upload, div0) ==
    IF ld.raised THEN LoadFailed(f)
    ELSE after_buttons(buttons(ld.value, e), f, e, upload, div0)

\* One run of main() for one widget event e, with the uploader holding upload.
main(f, e, upload, div0) == loaded(load_categories(f), f, e, upload, div0)

Run(e, upload, div0) ==
    \E r \in {main(file, e, upload, div0)} :
        /\ categories' = r.categories
        /\ file' = r.file
        /\ ui' = r.ui
        /\ results' = r.results
        /\ stats' = r.stats
        /\ ev' = e
        /\ kw_df' = upload

(***************************************************************************)
(* Aggregation: the preprocessed table as pd.read_excel returns it.  A row  *)
(* holds Asin and Model (Str or NaN: an empty cell is read as NaN), Rating  *)
(* (Num or NaN), Date (Timestamp or NaT) and ReviewType (a label, or the    *)
(* empty cell).  Group and Month hold the columns of those names when the   *)
(* table has them.                                                          *)
(***************************************************************************)
Timestamp(y, m, d) == [t |-> "date", n |-> y * 10000 + m * 100 + d, s |-> <<>>]
NaT                == [t |-> "nat",  n |-> 0, s |-> <<>>]

\* The Review Type of an empty cell: value_counts() and groupby() skip it.
BlankType == ""

an_columns ==
    {"ID", "Asin", "Title", "Content", "Model", "Rating", "Date", "Review Type"}

Table(rows) ==
    [columns |-> an_columns, rows |-> rows, Group |-> <<>>, Month |-> <<>>]

\* The number of cells of the column that hold the value l.
count_rows(types, l) == Cardinality({i \in 1..Len(types) : types[i] = l})

\* Mutant: the four labels are always reported, absent ones with count 0.
value_counts_filled(types) ==
    [l \in ({types[i] : i \in 1..Len(types)} \ {BlankType})
              \cup {"positive", "neutral", "negative", "unknown"} |->
        count_rows(types, l)]

\* Series.value_counts(): the count of every value that occurs, NaN left out.
value_counts(types) ==
    [l \in {types[i] : i \in 1..Len(types)} \ {BlankType} |->
        count_rows(types, l)]

review_types(rs) == [i \in 1..Len(rs) |-> rs[i].ReviewType]

\* Mutant: the percentages are rounded to one decimal.
review_percentages_round1(review_counts, n) ==
    [l \in DOMAIN review_counts |->
        IF n = 0 THEN NaN ELSE Num(round_ratio(review_counts[l] * 1000, n) * 10)]

\* (review_counts / len(df) * 100).round(2), in hundredths; a Series divided
\* by 0 holds NaN and nothing is raised.
review_percentages(review_counts, n) ==
    [l \in DOMAIN review_counts |->
        IF n = 0 THEN NaN ELSE Num(round_ratio(review_counts[l] * 10000, n))]

\* stats_df: one row per index value of review_counts.
stats_frame(review_counts, percentages) ==
    [l \in DOMAIN review_counts |->
        [count |-> review_counts[l], percentage |-> percentages[l]]]

review_stats_of(review_counts, df) ==
    stats_frame(review_counts, review_percentages(review_counts, Len(df.rows)))

calculate_review_stats(df) ==
    review_stats_of(value_counts(review_types(df.rows)), df)

(***************************************************************************)
(* analyze_by_group                                                         *)
(***************************************************************************)
\* Series + str and Series + Series on text columns: NaN where a side is NaN.
str_add(a, b) == IF a.t = "str" /\ b.t = "str" THEN Str(a.s \o b.s) ELSE NaN

SepDash == Str(<<32, 45, 32>>)             \* ' - '

\* df['Group'] = df['Asin'] + ' - ' + df['Model']
with_group(df) ==
    [df EXCEPT !.columns = @ \cup {"Group"},
               !.Group = [i \in 1..Len(df.rows) |->
                             str_add(str_add(df.rows[i].Asin, SepDash),
                                     df.rows[i].Model)]]

asin_column(df) == [i \in 1..Len(df.rows) |-> df.rows[i].Asin]

\* The composite key of each row, as line 112 computes it.
group_column(df) ==
    [i \in 1..Len(df.rows) |->
        str_add(str_add(df.rows[i].Asin, SepDash), df.rows[i].Model)]

\* groupby(key): the key values of the groups; rows whose key is NaN are in
\* no group (dropna=True).
group_keys(keys) == {keys[i].s : i \in {j \in 1..Len(keys) : keys[j].t = "str"}}

Indices(n) == [i \in 1..n |-> i]

\* The rows of the group g, in table order.
group_rows(df, keys, g) ==
    LET idx == SelectSeq(Indices(Len(keys)), LAMBDA i : keys[i] = Str(g))
    IN  AsSeq([k \in 1..Len(idx) |-> df.rows[idx[k]]])

\* The ratings of rows that count: NaN is skipped by count, mean, std and by
\* groupby on Rating.
rated(rows) ==
    LET rs == SelectSeq(rows, LAMBDA r : r.Rating.t = "num")
    IN  AsSeq([k \in 1..Len(rs) |-> rs[k].Rating.n])

RECURSIVE sum_seq(_, _)
sum_seq(xs, i) == IF i > Len(xs) THEN 0 ELSE xs[i] + sum_seq(xs, i + 1)

RECURSIVE min_seq(_, _)
min_seq(xs, i) ==
    IF i >= Len(xs) THEN xs[Len(xs)]
    ELSE LET m == min_seq(xs, i + 1) IN IF xs[i] < m THEN xs[i] ELSE m

\* mean().round(2) of ratings in thousandths, in hundredths; NaN without ratings.
mean_round2(xs) ==
    IF xs = <<>> THEN NaN ELSE Num(round_ratio(sum_seq(xs, 1), 10 * Len(xs)))

\* The largest rounded standard deviation of ratings between 0 and 5.
StdMax == 400

\* The hundredth nearest to sqrt(d / (n * (n - 1))) / 10, where d is
\* n * sum(x^2) - sum(x)^2.
sqrt_round2(d, n) ==
    CHOOSE h \in 0..StdMax :
        /\ h = 0 \/ (2 * h - 1) * (2 * h - 1) * 25 * n * (n - 1) <= d
        /\ d < (2 * h + 1) * (2 * h + 1) * 25 * n * (n - 1)

\* The deviations from the smallest rating: the variance is that of the ratings.
deviations(xs, lo) == [i \in 1..Len(xs) |-> xs[i] - lo]

sum_squares(ds) == sum_seq([i \in 1..Len(ds) |-> ds[i] * ds[i]], 1)

std_of(ds) ==
    Num(sqrt_round2(Len(ds) * sum_squares(ds) - sum_seq(ds, 1) * sum_seq(ds, 1),
                    Len(ds)))

\* std().round(2) with ddof = 1: NaN for fewer than two ratings.
std_round2(xs) ==
    IF Len(xs) < 2 THEN NaN ELSE std_of(deviations(xs, min_seq(xs, 1)))

\* agg({'Rating': ['count', 'mean', 'std'],
\*      'Review Type': lambda x: x.value_counts().to_dict()}) on one group.
agg_rated(rows, xs) ==
    [count |-> Len(xs), mean |-> mean_round2(xs), std |-> std_round2(xs),
     types |-> value_counts(review_types(rows))]

agg_group(rows) == agg_rated(rows, rated(rows))

group_stats_of(df, keys) ==
    [g \in group_keys(keys) |-> agg_group(group_rows(df, keys, g))]

\* groupby([key, 'Rating']).size(): the number of rows of group g with rating r.
size_of(df, keys, g, r) ==
    Cardinality({i \in 1..Len(keys) :
                    keys[i] = Str(g) /\ df.rows[i].Rating = Num(r)})

\* The (key, rating) pairs that occur; rows with a NaN key or rating are left out.
rated_keys(df, keys) ==
    {keys[i].s : i \in {j \in 1..Len(keys) :
                          keys[j].t = "str" /\ df.rows[j].Rating.t = "num"}}

rating_values(df, keys) ==
    {df.rows[i].Rating.n : i \in {j \in 1..Len(keys) :
                          keys[j].t = "str" /\ df.rows[j].Rating.t = "num"}}

\* The elements of a set of integers in ascending order.
RECURSIVE ascending(_)
ascending(S) ==
    IF S = {} THEN <<>>
    ELSE LET lo == CHOOSE x \in S : \A y \in S : x <= y
         IN  <<lo>> \o ascending(S \ {lo})

RECURSIVE sum_set(_, _)
sum_set(f, S) ==
    IF S = {} THEN 0
    ELSE LET x == CHOOSE y \in S : TRUE IN f[x] + sum_set(f, S \ {x})

\* cell / row sum * 100, a float: kept to four decimals; 0 / 0 is NaN.
percent_of(cell, total) ==
    IF total = 0 THEN NaN ELSE Num(round_ratio(cell * 1000000, total))

\* rating_dist.div(rating_dist.sum(axis=1), axis=0) * 100 on one row.
dist_row_pct(sizes, rs) ==
    [r \in rs |-> percent_of(sizes[r], sum_set(sizes, rs))]

\* unstack(fill_value=0): one row per key, one column per rating.
rating_dist_pct_of(df, keys, gs, rs) ==
    [columns |-> ascending(rs),
     rows    |-> [g \in gs |->
                    dist_row_pct([r \in rs |-> size_of(df, keys, g, r)], rs)]]

grouped(df, keys, trend_key) ==
    [df              |-> df,
     group_stats     |-> group_stats_of(df, keys),
     rating_dist_pct |-> rating_dist_pct_of(df, keys, rated_keys(df, keys),
                                            rating_values(df, keys)),
     group_by_trend  |-> trend_key]

\* The two values the page passes as group_by: 'Asin' and ['Asin', 'Model'].
ByAsin      == [is_list |-> FALSE, cols |-> <<"Asin">>]
ByAsinModel == [is_list |-> TRUE,  cols |-> <<"Asin", "Model">>]

analyze_by_group(df, group_by) ==
    IF group_by.is_list
    THEN grouped(with_group(df), group_column(df), "Group")
    ELSE grouped(df, asin_column(df), "Asin")

(***************************************************************************)
(* create_rating_trend_chart and create_overall_trend_chart                 *)
(***************************************************************************)
two_digits(n) == <<48 + ((n \div 10) % 10), 48 + (n % 10)>>

\* str(Period('M')): 'YYYY-MM'; the missing period prints as 'NaT'.
month_str(date) ==
    IF date.t = "nat" THEN Str(<<78, 97, 84>>)
    ELSE Str(two_digits(date.n \div 1000000) \o two_digits(date.n \div 10000)
             \o <<45>> \o two_digits(date.n \div 100))

\* df['Month'] = df['Date'].dt.to_period('M').astype(str)
with_month(df) ==
    [df EXCEPT !.columns = @ \cup {"Month"},
               !.Month = [i \in 1..Len(df.rows) |-> month_str(df.rows[i].Date)]]

\* A column of dates read from a file is datetime64 when it holds a date; a
\* column without any date is datetime64 or not as the frame was built
\* (dtype), and .dt raises AttributeError on a column that is not.
has_dt(df, dtype) ==
    \/ \E i \in 1..Len(df.rows) : df.rows[i].Date.t = "date"
    \/ dtype = "datetime64"

\* mean() of a group, a float: kept to three decimals; NaN without ratings.
mean_of(xs) ==
    IF xs = <<>> THEN NaN ELSE Num(round_ratio(sum_seq(xs, 1), Len(xs)))

\* The rows of month m (and of key g when keyed), in table order.
bucket_rows(df, keys, keyed, m, g) ==
    LET idx == SelectSeq(Indices(Len(df.rows)),
                   LAMBDA i : df.Month[i] = m /\ (keyed => keys[i] = g))
    IN  AsSeq([k \in 1..Len(idx) |-> df.rows[idx[k]]])

\* groupby(['Month', group_by])['Rating'].mean().reset_index(): one record per
\* (month, key) that occurs with a key that is not NaN.
trend_data_keyed(df, keys) ==
    { [Month |-> df.Month[i], key |-> keys[i],
       Rating |-> mean_of(rated(bucket_rows(df, keys, TRUE, df.Month[i],
                                            keys[i])))] :
          i \in {j \in 1..Len(df.rows) : keys[j].t = "str"} }

\* groupby('Month')['Rating'].mean().reset_index()
trend_data_overall(df) ==
    { [Month |-> df.Month[i], key |-> None,
       Rating |-> mean_of(rated(bucket_rows(df, <<>>, FALSE, df.Month[i],
                                            None)))] :
          i \in 1..Len(df.rows) }

key_column(df, group_by) ==
    IF group_by = "Group" THEN df.Group ELSE asin_column(df)

trend_keyed(df, group_by) ==
    [raised |-> FALSE, df |-> df,
     trend_data |-> trend_data_keyed(df, key_column(df, group_by))]

trend_overall(df) ==
    [raised |-> FALSE, df |-> df, trend_data |-> trend_data_overall(df)]

trend_raised(df) == [raised |-> TRUE, df |-> df, trend_data |-> {}]

\* group_by is 'Asin' or 'Group'.
create_rating_trend_chart(df, group_by, dtype) ==
    IF has_dt(df, dtype) THEN trend_keyed(with_month(df), group_by)
    ELSE trend_raised(df)

create_overall_trend_chart(df, dtype) ==
    IF has_dt(df, dtype) THEN trend_overall(with_month(df))
    ELSE trend_raised(df)

(***************************************************************************)
(* main of the statistics page: one run over an uploaded file               *)
(***************************************************************************)
\* The library calls of the page that can raise while a section is drawn,
\* after the section's figures were computed: the chart and table calls of
\* the sections, those of their fallbacks, and the export of each chart.
PageCalls ==
    {"pie", "bar", "group_table", "basic_table", "heatmap", "imshow",
     "trend_chart", "trend_line", "pie_html", "heatmap_html", "trend_html"}

\* One element of the page: the section it belongs to and how it is shown.
Item(section, view) == [section |-> section, view |-> view]

\* The run so far: the table, the elements drawn, whether an exception left
\* the sections (failed) and whether the current try block caught one.
PageStart(df) ==
    [df |-> df, out |-> <<>>, failed |-> FALSE, caught |-> FALSE,
     returned |-> FALSE]

render(p, section, view) == [p EXCEPT !.out = Append(@, Item(section, view))]

raise(p) == [p EXCEPT !.failed = TRUE]

\* st.success, read_excel and the check of the required columns.
page_validated(p) ==
    IF \A i \in 1..Len(stat_required_columns) :
           stat_required_columns[i] \in p.df.columns
    THEN render(p, "upload", "normal")
    ELSE [render(render(p, "upload", "normal"), "upload", "error")
            EXCEPT !.returned = TRUE]

has_date(df) == \E i \in 1..Len(df.rows) : df.rows[i].Date.t = "date"

\* The cards of the data overview: rows, mean rating and Asin count, then the
\* date range. min() of a Date column without a date is NaT (or NaN), and
\* strftime on it raises.
data_overview(p) ==
    IF p.returned THEN p
    ELSE IF has_date(p.df)
         THEN render(render(p, "overview", "counts"), "overview", "normal")
         ELSE raise(render(p, "overview", "counts"))

\* A try block with its except branch: the section as computed, or a warning
\* and the fallback; an exception of the fallback leaves the handler.
shown(p, fails, section, call, fallback_call) ==
    IF ~p.caught /\ call \notin fails
    THEN render(p, section, "normal")
    ELSE IF fallback_call \notin fails
         THEN [render(render(p, section, "warning"), section, "fallback")
                  EXCEPT !.caught = FALSE]
         ELSE raise(render(p, section, "warning"))

review_summary(p, fails) ==
    IF p.returned \/ p.failed THEN p
    ELSE shown(p, fails, "summary", "pie", "bar")

\* analyze_by_group(df, group_by) on the table of the page.
after_analyze(p, group_by) ==
    [p EXCEPT !.df = analyze_by_group(@, group_by).df]

basic_tab(p, fails, group_by) ==
    IF p.returned \/ p.failed THEN p
    ELSE shown(after_analyze(p, group_by), fails,
               "grouped", "group_table", "basic_table")

heatmap_tab(p, fails, heatmap_group_by) ==
    IF p.returned \/ p.failed THEN p
    ELSE shown(after_analyze(p, heatmap_group_by), fails,
               "heatmap", "heatmap", "imshow")

\* The trend call r on the table itself, or on the rows of selected Asins (a
\* new frame): the call stores Month in the frame it is given.
trend_called(p, r, on_df) ==
    [p EXCEPT !.df = IF on_df THEN r.df ELSE @, !.caught = r.raised]

after_trend(p, view_specific, dtype) ==
    IF view_specific = "overall"
    THEN trend_called(p, create_overall_trend_chart(p.df, dtype), TRUE)
    ELSE trend_called(p, create_rating_trend_chart(p.df, "Asin", dtype),
                      view_specific = "all_asins")

trend_tab(p, fails, view_specific, dtype) ==
    IF p.returned \/ p.failed THEN p
    ELSE shown(after_trend(p, view_specific, dtype), fails,
               "trend", "trend_chart", "trend_line")

\* try: save_fig_to_html and the download button; except: a notice.
download(p, fails, section, call) ==
    IF call \notin fails THEN render(p, section, "normal")
    ELSE render(p, section, "unavailable")

downloads(p, fails) ==
    IF p.returned \/ p.failed THEN p
    ELSE download(download(download(p, fails, "download_pie", "pie_html"),
                           fails, "download_heatmap", "heatmap_html"),
                  fails, "download_trend", "trend_html")

\* except Exception as e: st.error
page_except(p) ==
    IF p.failed THEN render(p, "page", "error") ELSE p

\* The three choices of the widgets of a run.
PageChoices ==
    [analysis : {ByAsin, ByAsinModel}, heatmap : {ByAsin, ByAsinModel},
     view : {"overall", "all_asins", "selected"}]

page_main(df, fails, c, dtype) ==
    page_except(
        downloads(
            trend_tab(
                heatmap_tab(
                    basic_tab(
                        review_summary(
                            data_overview(page_validated(PageStart(df))),
                            fails),
                        fails, c.analysis),
                    fails, c.heatmap),
                fails, c.view, dtype),
            fails))

(***************************************************************************)
(* Idle values of the pages a specification does not exercise               *)
(***************************************************************************)
IdleKw ==
    /\ categories = <<>>
    /\ file = NoFile
    /\ ui = {}
    /\ ev = NoEvent
    /\ kw_df = NoUpload
    /\ results = NoResults
    /\ stats = <<>>

IdleMk ==
    /\ mk_text = None
    /\ mk_keywords = <<>>
    /\ mk_result = "idle"

NoDist == [columns |-> <<>>, rows |-> <<>>]

NoOut ==
    [raised |-> FALSE, stats |-> <<>>, groups |-> <<>>, dist |-> NoDist,
     trend |-> {}]

IdleAn ==
    /\ an_df = Table(<<>>)
    /\ an_call = "idle"
    /\ an_out = NoOut
    /\ page_fails = {}
    /\ page_out = <<>>

IdlePre ==
    /\ pre_in = [columns |-> {}, rows |-> <<>>]
    /\ pre_out = [state |-> "idle", rows |-> <<>>]
    /\ pre_err = <<>>
    /\ stat_in = {}
    /\ stat_err = <<>>
    /\ stat_ok = "idle"

(***************************************************************************)
(* Specification of preprocessing and the schema gates                      *)
(***************************************************************************)
InitSchema == InitPre /\ IdleKw /\ IdleMk /\ IdleAn

NextSchema ==
    \/ ProcessData /\ UNCHANGED kwVars /\ UNCHANGED mkVars /\ UNCHANGED anVars
    \/ StatisticsUpload /\ UNCHANGED kwVars /\ UNCHANGED mkVars
          /\ UNCHANGED anVars

SpecSchema == InitSchema /\ [][NextSchema]_vars

Labels == {"positive", "neutral", "negative", "unknown"}

\* C1 (as claimed): every Rating that process_data coerces to NaN gets
\* Review Type 'unknown'.
C1_UnconvertibleIsUnknown ==
    pre_out.state = "df" =>
        \A i \in 1..Len(pre_out.rows) :
            pre_out.rows[i].Rating = NaN
                => pre_out.rows[i].ReviewType = "unknown"

\* C2: every numeric rating gets exactly one label among the four, equal
\* ratings get equal labels, r >= 4 is positive, r = 3 is neutral and r < 3
\* is negative (ratings in thousandths, so 2.999 and 3.999 are 2999 and 3999).
C2_ThresholdRules ==
    pre_out.state = "df" =>
        /\ \A i \in 1..Len(pre_out.rows) :
              LET r == pre_out.rows[i].Rating
                  l == pre_out.rows[i].ReviewType
              IN  r.t = "num" =>
                    /\ l \in Labels
                    /\ (r.n >= 4000 => l = "positive")
                    /\ (r.n = 3000 => l = "neutral")
                    /\ (r.n < 3000 => l = "negative")
        /\ \A i, j \in 1..Len(pre_out.rows) :
              (pre_out.rows[i].Rating.t = "num"
                 /\ pre_out.rows[i].Rating = pre_out.rows[j].Rating)
                => pre_out.rows[i].ReviewType = pre_out.rows[j].ReviewType

\* Rows at the boundaries 2.999 (negative) and 4 (positive) were classified.
C2_Witness ==
    /\ pre_out.state = "df"
    /\ \E i, j \in 1..Len(pre_out.rows) :
          /\ pre_out.rows[i].Rating = Num(2999)
          /\ pre_out.rows[i].ReviewType = "negative"
          /\ pre_out.rows[j].Rating = Num(4000)
          /\ pre_out.rows[j].ReviewType = "positive"

MissingFrom(cols, req) == {c \in Range(req) : c \notin cols}

NameA      == <<97>>                       \* "a"
NameKids   == <<75, 105, 100, 115>>        \* "Kids"
NameQuoted == <<233, 34, 92>>              \* e-acute, quotation mark, backslash

TextKidsGirl   == <<107, 105, 100, 115, 44, 103, 105, 114, 108>>
                                           \* "kids,girl"
TextKidsGirlEmpties ==
    <<107, 105, 100, 115, 44, 44, 103, 105, 114, 108, 44, 32>>
                                           \* "kids,,girl, "
TextGift       == <<71, 73, 70, 84>>       \* "GIFT"
TextBlank      == <<32>>                   \* " "
TextAccentLine == <<233, 44, 10, 107>>     \* e-acute, comma, newline, "k"

ContentGirl == Str(<<103, 114, 101, 97, 116, 32, 103, 105, 102, 116, 32, 102,
                     111, 114, 32, 109, 121, 32, 103, 105, 114, 108>>)
                                           \* "great gift for my girl"
ContentDog  == Str(<<103, 114, 101, 97, 116, 32, 103, 105, 102, 116, 32, 102,
                     111, 114, 32, 109, 121, 32, 100, 111, 103>>)
                                           \* "great gift for my dog"
ContentKids == Str(<<75, 105, 100, 115, 32, 108, 111, 118, 101, 32, 105, 116>>)
                                           \* "Kids love it"

\* What the user types into the name box and the keyword text areas.
TypedNames == {<<>>, NameA, NameQuoted}
TypedTexts == {<<>>, TextAccentLine}
PresetsTried == {1}

\* Stored mappings and uploaded tables of the classification runs.
ClassifyNames == {NameKids, NameQuoted}
ClassifyTexts == {<<>>, TextBlank, TextKidsGirl, TextKidsGirlEmpties, TextGift}

IsDict(d) == \A i, j \in 1..Len(d) : i # j => d[i].name # d[j].name

ClassifyMappings ==
    { d \in SeqsUpTo([name : ClassifyNames, keywords : ClassifyTexts], MaxCats) :
          IsDict(d) }

KwRowKinds ==
    { [Content |-> ContentGirl, ReviewType |-> "positive"],
      [Content |-> ContentDog,  ReviewType |-> "negative"],
      [Content |-> NaN,         ReviewType |-> "neutral"] }

WithIds(rs) ==
    [i \in 1..Len(rs) |->
        [ID |-> 100 + i, Content |-> rs[i].Content,
         ReviewType |-> rs[i].ReviewType]]

KwAllColumns == Range(kw_required_columns)

KwTables ==
    { [present |-> TRUE, columns |-> KwAllColumns \cup {"Rating"},
       rows |-> WithIds(rs)] : rs \in SeqsUpTo(KwRowKinds, MaxReviews) }
    \cup
    { [present |-> TRUE, columns |-> {"ID", "Review Type"}, rows |-> <<>>] }

(***************************************************************************)
(* Keyword page: the widget events                                          *)
(***************************************************************************)
Frame == UNCHANGED preVars /\ UNCHANGED mkVars /\ UNCHANGED anVars

\* What the division by len(df) can do in a run: it is only ever a division
\* by zero when the uploaded table has no rows.
Div0Outcomes(upload) ==
    IF upload.present /\ Len(upload.rows) = 0 THEN {"raise", "nan"} ELSE {"nan"}

\* The page is opened or refreshed; an uploaded file stays in the uploader.
OpenPage ==
    /\ \E d \in Div0Outcomes(kw_df) : Run(NoEvent, kw_df, d)
    /\ Frame

\* The import button of a preset.
ImportPreset ==
    /\ \E k \in PresetsTried, d \in Div0Outcomes(kw_df) :
          Run([op |-> "import", name |-> PRESET_CATEGORIES[k].name,
                  text |-> <<>>], kw_df, d)
    /\ Frame

\* The add button, with whatever the name box holds.
AddCategory ==
    /\ \E n \in TypedNames, d \in Div0Outcomes(kw_df) :
          Run([op |-> "add", name |-> n, text |-> <<>>], kw_df, d)
    /\ Frame

\* The text area of a displayed category is changed.
EditKeywords ==
    /\ \E i \in 1..Len(categories), t \in TypedTexts,
          d \in Div0Outcomes(kw_df) :
          Run([op |-> "edit", name |-> categories[i].name, text |-> t],
              kw_df, d)
    /\ Frame

\* The delete button of a displayed category.
DeleteCategory ==
    /\ \E i \in 1..Len(categories), d \in Div0Outcomes(kw_df) :
          Run([op |-> "delete", name |-> categories[i].name, text |-> <<>>],
              kw_df, d)
    /\ Frame

\* A file is put into the uploader (once per session).
UploadFile ==
    /\ ~kw_df.present
    /\ \E t \in KwTables :
          \E d \in Div0Outcomes(t) :
              Run([op |-> "upload", name |-> <<>>, text |-> <<>>], t, d)
    /\ Frame

(***************************************************************************)
(* Specification of the category store: a session without an upload         *)
(***************************************************************************)
InitStore == IdlePre /\ IdleMk /\ IdleKw /\ IdleAn

NextStore ==
    \/ OpenPage
    \/ ImportPreset
    \/ AddCategory
    \/ EditKeywords
    \/ DeleteCategory

SpecStore == InitStore /\ [][NextStore]_vars

(***************************************************************************)
(* Specification of classification: a stored mapping, then an upload        *)
(***************************************************************************)
InitClassify ==
    /\ IdlePre /\ IdleMk /\ IdleAn
    /\ categories = <<>>
    /\ file \in {NoFile} \cup {save_categories(m) : m \in ClassifyMappings}
    /\ ui = {}
    /\ ev = NoEvent
    /\ kw_df = NoUpload
    /\ results = NoResults
    /\ stats = <<>>

NextClassify ==
    \/ OpenPage
    \/ UploadFile

SpecClassify == InitClassify /\ [][NextClassify]_vars

(***************************************************************************)
(* Specification of the keyword matcher alone                               *)
(***************************************************************************)
MkTexts ==
    { None, NaN, ContentGirl, ContentDog, ContentKids,
      Str(<<>>), Str(<<77, 121, 32, 71, 73, 82, 76, 32, 201>>) }
                                           \* "My GIRL E-acute"

MkKeywords ==
    { <<>>, <<103, 105, 114, 108>>,        \* "", "girl"
      <<32, 71, 105, 114, 108, 32>>,       \* " Girl "
      <<107, 105, 100, 115>>,              \* "kids"
      <<233>> }                            \* e-acute

InitMatch ==
    /\ IdlePre /\ IdleKw /\ IdleAn
    /\ mk_text \in MkTexts
    /\ mk_keywords \in SeqsUpTo(MkKeywords, MaxKeywords)
    /\ mk_result = "idle"

\* One call of match_keywords(text, keywords).
CallMatchKeywords ==
    /\ mk_result = "idle"
    /\ mk_result' = IF match_keywords(mk_text, mk_keywords)
                    THEN "True" ELSE "False"
    /\ UNCHANGED <<mk_text, mk_keywords>>
    /\ UNCHANGED preVars /\ UNCHANGED kwVars /\ UNCHANGED anVars

NextMatch == CallMatchKeywords

SpecMatch == InitMatch /\ [][NextMatch]_vars

(***************************************************************************)
(* Specification of the review-type summary                                 *)
(***************************************************************************)
AsinA1 == Str(<<65, 49>>)                  \* "A1"
AsinA2 == Str(<<65, 50>>)                  \* "A2"
ModelM1 == Str(<<77, 49>>)                 \* "M1"
ModelM2 == Str(<<77, 50>>)                 \* "M2"

\* A row as process_data leaves it: the Review Type is that of the Rating.
ProcessedRow(asin, model, rating, date) ==
    [Asin |-> asin, Model |-> model, Rating |-> rating, Date |-> date,
     ReviewType |-> get_review_type(rating)]

SummaryRatings == {Num(5000), Num(3000), Num(1000), Num(4000)}

\* Preprocessed tables: any ratings, in any order.
SummaryTables ==
    { Table([i \in 1..Len(rs) |->
                ProcessedRow(AsinA1, ModelM1, rs[i], Timestamp(2024, 1, 15))]) :
          rs \in SeqsUpTo(SummaryRatings, MaxSummaryRows) }

\* n rows of an uploaded file with one Review Type.
TypedRows(type, n) ==
    [i \in 1..n |->
        [Asin |-> AsinA1, Model |-> ModelM1, Rating |-> Num(5000),
         Date |-> Timestamp(2024, 1, 15), ReviewType |-> type]]

\* Uploaded files, by the number of rows of each Review Type (the file need
\* not come from process_data: 'unknown' and empty cells occur).
BulkTables ==
    { Table(TypedRows("positive", p) \o TypedRows("neutral", c[1])
            \o TypedRows("negative", c[2]) \o TypedRows("unknown", c[3])
            \o TypedRows(BlankType, c[4])) :
          p \in 0..MaxBulk, c \in [1..4 -> {0, 1}] }

InitSummary ==
    /\ IdlePre /\ IdleKw /\ IdleMk
    /\ an_df \in SummaryTables \cup BulkTables
    /\ an_call = "idle"
    /\ an_out = NoOut
    /\ page_fails = {}
    /\ page_out = <<>>

OtherPagesIdle == UNCHANGED preVars /\ UNCHANGED kwVars /\ UNCHANGED mkVars

\* One call of calculate_review_stats(df).
CalculateReviewStats ==
    /\ an_call = "idle"
    /\ an_call' = "calculate_review_stats"
    /\ an_out' = [NoOut EXCEPT !.stats = calculate_review_stats(an_df)]
    /\ UNCHANGED <<an_df, page_fails, page_out>>
    /\ OtherPagesIdle

NextSummary == CalculateReviewStats

SpecSummary == InitSummary /\ [][NextSummary]_vars

(***************************************************************************)
(* Specification of the grouped statistics and the trend                    *)
(***************************************************************************)
Jan15 == Timestamp(2024, 1, 15)
Feb03 == Timestamp(2024, 2, 3)

\* Rows of a preprocessed file: an empty Model cell, a Rating that was not a
\* number and a Date that did not parse are read back as NaN / NaT.
AggRowKinds ==
    { ProcessedRow(AsinA1, ModelM1, Num(4000), Jan15),
      ProcessedRow(AsinA1, ModelM1, Num(5000), Jan15),
      ProcessedRow(AsinA1, ModelM2, Num(2000), Feb03),
      ProcessedRow(AsinA1, NaN,     Num(5000), Jan15),
      ProcessedRow(AsinA2, ModelM1, NaN,       Feb03),
      ProcessedRow(AsinA1, ModelM1, Num(5000), NaT),
      ProcessedRow(AsinA2, ModelM2, Num(3000), NaT) }

AggTables == { Table(rs) : rs \in SeqsUpTo(AggRowKinds, MaxAggRows) }

InitAggregate ==
    /\ IdlePre /\ IdleKw /\ IdleMk
    /\ an_df \in AggTables
    /\ an_call = "idle"
    /\ an_out = NoOut
    /\ page_fails = {}
    /\ page_out = <<>>

\* The dtype of a Date column that holds no date.
Dtypes(df) ==
    IF \E i \in 1..Len(df.rows) : df.rows[i].Date.t = "date"
    THEN {"datetime64"} ELSE {"datetime64", "object"}

\* One call of analyze_by_group(df, group_by).
AnalyzeByGroup ==
    /\ an_call = "idle"
    /\ \E group_by \in {ByAsin, ByAsinModel} :
          \E r \in {analyze_by_group(an_df, group_by)} :
              /\ an_df' = r.df
              /\ an_call' = IF group_by.is_list THEN "analyze_by_group_list"
                            ELSE "analyze_by_group"
              /\ an_out' = [NoOut EXCEPT !.groups = r.group_stats,
                                         !.dist = r.rating_dist_pct]
    /\ UNCHANGED <<page_fails, page_out>>
    /\ OtherPagesIdle

\* One call of create_rating_trend_chart(df, group_by), on the table as read
\* or after analyze_by_group; 'Group' needs the column of that name.
CreateRatingTrendChart ==
    /\ an_call \in {"idle", "analyze_by_group", "analyze_by_group_list"}
    /\ \E group_by \in {"Asin"} \cup
                       (IF "Group" \in an_df.columns THEN {"Group"} ELSE {}),
          dtype \in Dtypes(an_df) :
          \E r \in {create_rating_trend_chart(an_df, group_by, dtype)} :
              /\ an_df' = r.df
              /\ an_call' = "create_rating_trend_chart"
              /\ an_out' = [NoOut EXCEPT !.raised = r.raised,
                                         !.trend = r.trend_data]
    /\ UNCHANGED <<page_fails, page_out>>
    /\ OtherPagesIdle

\* One call of create_overall_trend_chart(df).
CreateOverallTrendChart ==
    /\ an_call = "idle"
    /\ \E dtype \in Dtypes(an_df) :
          \E r \in {create_overall_trend_chart(an_df, dtype)} :
              /\ an_df' = r.df
              /\ an_call' = "create_overall_trend_chart"
              /\ an_out' = [NoOut EXCEPT !.raised = r.raised,
                                         !.trend = r.trend_data]
    /\ UNCHANGED <<page_fails, page_out>>
    /\ OtherPagesIdle

NextAggregate ==
    \/ AnalyzeByGroup
    \/ CreateRatingTrendChart
    \/ CreateOverallTrendChart

SpecAggregate == InitAggregate /\ [][NextAggregate]_vars

(***************************************************************************)
(* Specification of a run of the statistics page                            *)
(***************************************************************************)
PageRowKinds ==
    { ProcessedRow(AsinA1, ModelM1, Num(5000), Jan15),
      ProcessedRow(AsinA2, ModelM2, Num(3000), NaT) }

\* Uploaded files: preprocessed tables, and one that lacks a column.
PageTables ==
    { Table(rs) : rs \in SeqsUpTo(PageRowKinds, MaxPageRows) }
    \cup { [Table(<<>>) EXCEPT !.columns = @ \ {"Review Type"}] }

InitPage ==
    /\ IdlePre /\ IdleKw /\ IdleMk
    /\ an_df \in PageTables
    /\ an_call = "idle"
    /\ an_out = NoOut
    /\ page_fails \in SUBSET PageCalls
    /\ page_out = <<>>

\* One run of main with a file uploaded.
RunPage ==
    /\ an_call = "idle"
    /\ \E c \in PageChoices, dtype \in Dtypes(an_df) :
          \E r \in {page_main(an_df, page_fails, c, dtype)} :
              /\ an_df' = r.df
              /\ page_out' = r.out
    /\ an_call' = "main"
    /\ UNCHANGED <<an_out, page_fails>>
    /\ OtherPagesIdle

NextPage == RunPage

SpecPage == InitPage /\ [][NextPage]_vars

(***************************************************************************)
(* Properties of the classification engine                                  *)
(***************************************************************************)
Analyzed == results.state = "ok"

ColumnOf(k) == column_values(results.Is, column_name(categories[k].name))

RowCount == Len(kw_df.rows)

\* The keywords of a string once empty pieces are dropped.
NonEmptyKeywords(s) == SelectSeq(category_keywords(s), LAMBDA k : k # <<>>)

\* C3 (as claimed): a category whose keyword string is empty or only
\* whitespace has an all-false column and a matched count of 0.
C3_EmptyKeywordsMatchNothing ==
    Analyzed =>
        \A k \in 1..Len(categories) :
            strip(categories[k].keywords) = <<>> =>
                /\ \A i \in 1..RowCount : ColumnOf(k)[i] = FALSE
                /\ stats[k].matched = 0

\* C4 (as claimed): empty pieces of a keyword string are discarded, so two
\* categories whose keyword strings differ only by empty pieces have the same
\* column.
C4_EmptyPiecesDiscarded ==
    Analyzed =>
        \A k, m \in 1..Len(categories) :
            NonEmptyKeywords(categories[k].keywords)
                = NonEmptyKeywords(categories[m].keywords)
              => ColumnOf(k) = ColumnOf(m)

\* The table with only row i of the uploaded table.
OneRow(i) == [kw_df EXCEPT !.rows = <<kw_df.rows[i]>>]

\* C6: there is one boolean column per category, and its value in a row is
\* the value an analysis of that row alone against that category alone gives:
\* it depends on nothing but the row's Content and the category's keyword
\* string.
C6_PerCategoryIndependent ==
    Analyzed =>
        /\ Len(results.Is) = Len(categories)
        /\ \A k \in 1..Len(categories) :
              /\ Len(ColumnOf(k)) = RowCount
              /\ \A i \in 1..RowCount :
                    ColumnOf(k)[i]
                      = analyze_reviews(OneRow(i), <<categories[k]>>, "nan")
                            .results.Is[1].values[1]

\* A row is true in the columns of two categories with disjoint keywords.
C6_Witness ==
    /\ Analyzed
    /\ Len(categories) = 2
    /\ categories[1].keywords = TextKidsGirl
    /\ categories[2].keywords = TextGift
    /\ \E i \in 1..RowCount : ColumnOf(1)[i] /\ ColumnOf(2)[i]
    /\ \E i \in 1..RowCount : ~ColumnOf(1)[i] /\ ColumnOf(2)[i]

\* C7: the matched count is the number of true rows of the column and lies in
\* 0..rows; on a table with rows the percentage is within half a hundredth of
\* matched / rows * 100 (it is that quotient rounded to 2 decimals); the result
\* has one row per input row with its ID, Content and Review Type.
C7_CountsAndRows ==
    Analyzed =>
        /\ Len(stats) = Len(categories)
        /\ \A k \in 1..Len(categories) :
              LET m == stats[k].matched
                  p == stats[k].percentage
              IN  /\ stats[k].name = categories[k].name
                  /\ m = Cardinality({i \in 1..RowCount : ColumnOf(k)[i]})
                  /\ m \in 0..RowCount
                  /\ RowCount > 0 =>
                        /\ p.t = "num"
                        /\ 2 * (p.n * RowCount - m * 10000) <= RowCount
                        /\ 2 * (m * 10000 - p.n * RowCount) <= RowCount
        /\ Len(results.ID) = RowCount
        /\ Len(results.Content) = RowCount
        /\ Len(results.OriginalReviewType) = RowCount
        /\ \A i \in 1..RowCount :
              /\ results.ID[i] = kw_df.rows[i].ID
              /\ results.Content[i] = kw_df.rows[i].Content
              /\ results.OriginalReviewType[i] = kw_df.rows[i].ReviewType

\* Two of three rows matched: 66.67 percent.
C7_Witness ==
    /\ Analyzed
    /\ RowCount = 3
    /\ \E k \in 1..Len(categories) :
          stats[k].matched = 2 /\ stats[k].percentage = Num(6667)

(***************************************************************************)
(* Properties of the keyword matcher                                        *)
(***************************************************************************)
\* Upper-casing of ASCII and Latin-1 letters.
upper_char(c) ==
    IF c \in 97..122 THEN c - 32
    ELSE IF c \in 224..254 /\ c # 247 THEN c - 32
    ELSE c

Upper(s) == [i \in 1..Len(s) |-> upper_char(s[i])]

UpperCell(x) == IF x.t = "str" THEN Str(Upper(x.s)) ELSE x

\* k occurs in s at some position.
OccursIn(k, s) ==
    \E a \in 1..(Len(s) + 1) :
        /\ a + Len(k) - 1 <= Len(s)
        /\ \A j \in 1..Len(k) : s[a + j - 1] = k[j]

\* C5: the result is false for missing text and for the empty keyword list,
\* otherwise true exactly when the lower-cased text contains the lower-cased
\* trimmed form of some keyword; changing the letter case of the text or of
\* the keywords does not change it.
C5_MatchKeywords ==
    mk_result # "idle" =>
        /\ mk_result \in {"True", "False"}
        /\ isna(mk_text) => mk_result = "False"
        /\ mk_keywords = <<>> => mk_result = "False"
        /\ ~isna(mk_text) =>
              ((mk_result = "True")
                 <=> \E i \in 1..Len(mk_keywords) :
                        OccursIn(lower(strip(mk_keywords[i])), lower(mk_text.s)))
        /\ match_keywords(UpperCell(mk_text), mk_keywords)
              = (mk_result = "True")
        /\ match_keywords(mk_text,
                          [i \in 1..Len(mk_keywords) |-> Upper(mk_keywords[i])])
              = (mk_result = "True")

\* An upper-case text matched through a keyword written with a capital and
\* surrounding blanks.
C5_Witness ==
    /\ mk_result = "True"
    /\ mk_text = Str(<<77, 121, 32, 71, 73, 82, 76, 32, 201>>)
    /\ mk_keywords = << <<107, 105, 100, 115>>, <<32, 71, 105, 114, 108, 32>> >>

(***************************************************************************)
(* Properties of the category store                                         *)
(***************************************************************************)
\* C9: a run that adds a name already in the store changes neither the mapping
\* nor the file and shows the warning; a run that adds a new name appends it
\* with the empty keyword string and saves.
C9_DuplicateAdd ==
    [][ (ev'.op = "add" /\ ev'.name # <<>>) =>
            IF has_key(categories, ev'.name)
            THEN /\ categories' = categories
                 /\ file' = file
                 /\ "warning_exists" \in ui'
            ELSE /\ categories'
                      = Append(categories,
                               [name |-> ev'.name, keywords |-> <<>>])
                 /\ file' = save_categories(categories')
                 /\ "warning_exists" \notin ui' ]_vars

\* A duplicate add was refused while the category held keywords.
C9_Witness ==
    /\ ev.op = "add"
    /\ "warning_exists" \in ui
    /\ has_key(categories, ev.name)
    /\ get_item(categories, ev.name) = TextAccentLine

\* C10: loading what save_categories wrote for the current mapping gives the
\* mapping back, the file on disk loads to the mapping in memory, and without
\* a file the page runs with the empty mapping.
C10_RoundTrip ==
    /\ load_categories(save_categories(categories))
          = [raised |-> FALSE, value |-> categories]
    /\ file # NoFile =>
          load_categories(file) = [raised |-> FALSE, value |-> categories]
    /\ file = NoFile => categories = <<>> /\ "exception" \notin ui

\* A stored mapping with a non-ASCII name holding quote and backslash, with
\* non-ASCII keywords, and a second category with the empty keyword string.
C10_Witness ==
    /\ file # NoFile
    /\ has_key(categories, NameQuoted)
    /\ get_item(categories, NameQuoted) = TextAccentLine
    /\ has_key(categories, NameA)
    /\ get_item(categories, NameA) = <<>>
    /\ load_categories(file).value = categories

\* The page was opened without a file: empty mapping, the hint is shown.
C10_WitnessNoFile ==
    /\ file = NoFile
    /\ "info_empty" \in ui
    /\ categories = <<>>

\* C11: a run that imports a preset leaves the preset's name bound to the
\* built-in keyword string (appended when the name was absent, replaced in
\* place when it was present), leaves every other category as it was, writes
\* the mapping to the file, and a second import of the same preset changes
\* neither the mapping nor the file.
C11_ImportPreset ==
    [][ ev'.op = "import" =>
            /\ has_key(categories', ev'.name)
            /\ get_item(categories', ev'.name) = preset_keywords(ev'.name)
            /\ Len(categories')
                  = Len(categories)
                    + (IF has_key(categories, ev'.name) THEN 0 ELSE 1)
            /\ \A i \in 1..Len(categories) :
                  /\ categories'[i].name = categories[i].name
                  /\ categories[i].name # ev'.name
                        => categories'[i].keywords = categories[i].keywords
            /\ load_categories(file')
                  = [raised |-> FALSE, value |-> categories']
            /\ main(file', ev', kw_df', "nan").categories = categories'
            /\ main(file', ev', kw_df', "nan").file = file' ]_vars

\* An import ran on a store that already held the preset: a category added
\* after the preset still follows it, and the preset holds the built-in text.
C11_Witness ==
    /\ ev.op = "import"
    /\ Len(categories) = 2
    /\ categories[1].name = preset_name_1
    /\ categories[1].keywords = preset_keywords_1
    /\ categories[2].name = NameQuoted
    /\ categories[2].keywords = TextAccentLine

(***************************************************************************)
(* Properties of the review-type summary                                    *)
(***************************************************************************)
Summarized == an_call = "calculate_review_stats"

RowsOfType(l) == {i \in 1..Len(an_df.rows) : an_df.rows[i].ReviewType = l}

TypesPresent ==
    {an_df.rows[i].ReviewType : i \in 1..Len(an_df.rows)} \ {BlankType}

Ratings5314 == <<Num(5000), Num(3000), Num(1000), Num(4000)>>

\* C12: the summary has one entry for each Review Type that occurs in the
\* table and no other entry; its count is the number of rows of that type and
\* its percentage is within half a hundredth of count / rows * 100; ratings
\* [5, 3, 1, 4] give positive 2 (50%), neutral 1 (25%), negative 1 (25%).
C12_ReviewStats ==
    Summarized =>
        /\ DOMAIN an_out.stats = TypesPresent
        /\ \A l \in TypesPresent :
              LET c == an_out.stats[l].count
                  q == an_out.stats[l].percentage
                  n == Len(an_df.rows)
              IN  /\ c = Cardinality(RowsOfType(l))
                  /\ q.t = "num"
                  /\ 2 * (q.n * n - c * 10000) <= n
                  /\ 2 * (c * 10000 - q.n * n) <= n
        /\ [i \in 1..Len(an_df.rows) |-> an_df.rows[i].Rating] = Ratings5314
              => an_out.stats
                   = [l \in {"positive", "neutral", "negative"} |->
                        IF l = "positive"
                        THEN [count |-> 2, percentage |-> Num(5000)]
                        ELSE [count |-> 1, percentage |-> Num(2500)]]

\* The summary of the table with ratings [5, 3, 1, 4] was computed: three
\* entries, none for 'unknown'.
C12_Witness ==
    /\ Summarized
    /\ [i \in 1..Len(an_df.rows) |-> an_df.rows[i].Rating] = Ratings5314
    /\ DOMAIN an_out.stats = {"positive", "neutral", "negative"}
    /\ an_out.stats["positive"].count = 2

AllTyped ==
    /\ Len(an_df.rows) > 0
    /\ \A i \in 1..Len(an_df.rows) : an_df.rows[i].ReviewType \in Labels

PercentOf(l) ==
    IF l \in DOMAIN an_out.stats THEN an_out.stats[l].percentage.n ELSE 0

\* The sum of the reported percentages, in hundredths.
PercentSum ==
    PercentOf("positive") + PercentOf("neutral") + PercentOf("negative")
    + PercentOf("unknown")

Distance(a, b) == IF a >= b THEN a - b ELSE b - a

\* C13 (as claimed): on a non-empty table whose rows all have one of the four
\* Review Types, the reported percentages sum to 100 within 0.01.
C13_SumWithinOneHundredth ==
    (Summarized /\ AllTyped) => Distance(PercentSum, 10000) <= 1

\* C13 (amended): on such a table the reported percentages sum to 100 within
\* 0.005 times the number of Review Types present, hence within 0.02.
C13_SumWithinRounding ==
    (Summarized /\ AllTyped) =>
        /\ 2 * Distance(PercentSum, 10000) <= Cardinality(TypesPresent)
        /\ Distance(PercentSum, 10000) <= 2

\* 32 rows, 29 of one type and one of each other type: 90.62 + 3 * 3.12.
C13_Witness ==
    /\ Summarized /\ AllTyped
    /\ Len(an_df.rows) = 32
    /\ Cardinality(TypesPresent) = 4
    /\ PercentSum = 9998

(***************************************************************************)
(* Properties of the grouped statistics                                     *)
(***************************************************************************)
GroupedByPair == an_call = "analyze_by_group_list"

\* The text of a cell; the empty Model is the empty text.
CellText(x) == IF x.t = "str" THEN x.s ELSE <<>>

PairKey(a, m) == CellText(a) \o <<32, 45, 32>> \o CellText(m)

RowsOfPair(a, m) ==
    {i \in 1..Len(an_df.rows) :
        an_df.rows[i].Asin = a /\ an_df.rows[i].Model = m}

PairsPresent ==
    {<<an_df.rows[i].Asin, an_df.rows[i].Model>> : i \in 1..Len(an_df.rows)}

\* The ratings (thousandths) of the rows of a pair that have one, summed.
RatingSum(a, m) ==
    sum_set([i \in 1..Len(an_df.rows) |->
                IF an_df.rows[i].Rating.t = "num"
                THEN an_df.rows[i].Rating.n ELSE 0],
            RowsOfPair(a, m))

RatedRowsOfPair(a, m) ==
    {i \in RowsOfPair(a, m) : an_df.rows[i].Rating.t = "num"}

GroupCountSum == sum_set([g \in DOMAIN an_out.groups |-> an_out.groups[g].count],
                         DOMAIN an_out.groups)

\* C14 (as claimed): grouping by [Asin, Model] gives one group 'Asin - Model'
\* for every pair that occurs in the table; its count is the number of rows of
\* the pair, its mean is their mean rating rounded to 2 decimals, a group of
\* one row has no standard deviation, and the counts add up to the number of
\* rows of the table.
C14_GroupPerPair ==
    GroupedByPair =>
        /\ Cardinality(DOMAIN an_out.groups) = Cardinality(PairsPresent)
        /\ \A p \in PairsPresent :
              /\ PairKey(p[1], p[2]) \in DOMAIN an_out.groups
              /\ LET g == an_out.groups[PairKey(p[1], p[2])]
                     n == Cardinality(RatedRowsOfPair(p[1], p[2]))
                 IN  /\ g.count = Cardinality(RowsOfPair(p[1], p[2]))
                     /\ n > 0 =>
                           /\ g.mean.t = "num"
                           /\ 2 * Distance(g.mean.n * 10 * n,
                                           RatingSum(p[1], p[2])) <= 10 * n
                     /\ Cardinality(RowsOfPair(p[1], p[2])) = 1
                           => g.std = NaN
        /\ GroupCountSum = Len(an_df.rows)

Grouped == an_call \in {"analyze_by_group", "analyze_by_group_list"}

\* The key of row i under the grouping of the call: the Asin, or the pair.
KeyText(i) ==
    IF GroupedByPair THEN PairKey(an_df.rows[i].Asin, an_df.rows[i].Model)
    ELSE CellText(an_df.rows[i].Asin)

RowsOfGroup(g) == {i \in 1..Len(an_df.rows) : KeyText(i) = g}

RowsOfGroupRated(g, r) == {i \in RowsOfGroup(g) : an_df.rows[i].Rating = Num(r)}

\* The rows of a group that have a rating: what its percentages divide by.
RowsOfGroupWithRating(g) ==
    {i \in RowsOfGroup(g) : an_df.rows[i].Rating.t = "num"}

RatingsPresent ==
    {an_df.rows[i].Rating.n :
        i \in {j \in 1..Len(an_df.rows) : an_df.rows[j].Rating.t = "num"}}

DistRowSum(g) ==
    sum_set([r \in DOMAIN an_out.dist.rows[g] |-> an_out.dist.rows[g][r].n],
            DOMAIN an_out.dist.rows[g])

\* C15 (as claimed): the matrix has a row for every group and a column for
\* every rating value of the table, in ascending order; a cell is the
\* percentage of the group's rated rows that have the rating (cells are kept
\* to four decimals); the row of a group sums to 100 within 0.01; a group
\* with no rated row to divide by has 0 in every cell, not NaN.
C15_DistributionMatrix ==
    Grouped =>
        /\ an_out.dist.columns = ascending(RatingsPresent)
        /\ DOMAIN an_out.dist.rows = DOMAIN an_out.groups
        /\ \A g \in DOMAIN an_out.dist.rows :
              /\ \A r \in DOMAIN an_out.dist.rows[g] :
                    /\ an_out.dist.rows[g][r].t = "num"
                    /\ 2 * Distance(an_out.dist.rows[g][r].n
                                      * Cardinality(RowsOfGroupWithRating(g)),
                                    1000000 * Cardinality(RowsOfGroupRated(g, r)))
                          <= Cardinality(RowsOfGroupWithRating(g))
              /\ IF RowsOfGroupWithRating(g) # {}
                 THEN Distance(DistRowSum(g), 1000000) <= 100
                 ELSE DistRowSum(g) = 0

(***************************************************************************)
(* Properties of the monthly trend                                          *)
(***************************************************************************)
Trended ==
    an_call \in {"create_rating_trend_chart", "create_overall_trend_chart"}

Digit(c) == c \in 48..57

\* A bucket label of the form 'YYYY-MM' with a month from 01 to 12.
IsCalendarMonth(m) ==
    /\ m.t = "str"
    /\ Len(m.s) = 7
    /\ m.s[5] = 45
    /\ \A k \in {1, 2, 3, 4, 6, 7} : Digit(m.s[k])
    /\ (m.s[6] - 48) * 10 + (m.s[7] - 48) \in 1..12

\* The rows whose Date falls in the month of bucket b (and that have its key).
RowsOfBucket(b) ==
    {i \in 1..Len(an_df.rows) :
        /\ an_df.rows[i].Date.t = "date"
        /\ month_str(an_df.rows[i].Date) = b.Month
        /\ \/ b.key = None
           \/ an_df.rows[i].Asin = b.key
           \/ "Group" \in an_df.columns /\ an_df.Group[i] = b.key}

RatedRowsOfBucket(b) ==
    {i \in RowsOfBucket(b) : an_df.rows[i].Rating.t = "num"}

BucketRatingSum(b) ==
    sum_set([i \in RatedRowsOfBucket(b) |-> an_df.rows[i].Rating.n],
            RatedRowsOfBucket(b))

DatelessRows == {i \in 1..Len(an_df.rows) : an_df.rows[i].Date.t # "date"}

\* Every dateless row is among the rows the review-type summary counts.
DatelessCounted(summary) ==
    \A i \in DatelessRows :
        /\ an_df.rows[i].ReviewType \in DOMAIN summary
        /\ summary[an_df.rows[i].ReviewType].count
              = Cardinality({j \in 1..Len(an_df.rows) :
                    an_df.rows[j].ReviewType = an_df.rows[i].ReviewType})

\* C16 (as claimed): a trend call on a table of reviews, dateless rows
\* included, raises nothing; every bucket of the series is a calendar month 'YYYY-MM' and its
\* mean is the mean rating of the rows dated in that month; the dateless rows
\* are still counted by the review-type summary.
C16_DatelessRowsExcluded ==
    Trended /\ an_df.rows # <<>> =>
        /\ ~an_out.raised
        /\ \A b \in an_out.trend :
              /\ IsCalendarMonth(b.Month)
              /\ IF RatedRowsOfBucket(b) = {} THEN b.Rating = NaN
                 ELSE /\ b.Rating.t = "num"
                      /\ 2 * Distance(b.Rating.n * Cardinality(RatedRowsOfBucket(b)),
                                      BucketRatingSum(b))
                            <= Cardinality(RatedRowsOfBucket(b))
        /\ DatelessCounted(calculate_review_stats(an_df))

(***************************************************************************)
(* Properties of a run of the statistics page                               *)
(***************************************************************************)
\* A run that passed the check of the required columns.
PageRan ==
    /\ an_call = "main"
    /\ \A i \in 1..Len(stat_required_columns) :
          stat_required_columns[i] \in an_df.columns

\* The analysis sections in page order, each with its first library call.
PageSections ==
    <<"overview", "summary", "grouped", "heatmap", "trend",
      "download_pie", "download_heatmap", "download_trend">>

FirstCall ==
    [summary |-> "pie", grouped |-> "group_table", heatmap |-> "heatmap",
     trend |-> "trend_chart", download_pie |-> "pie_html",
     download_heatmap |-> "heatmap_html", download_trend |-> "trend_html"]

\* The section's own computation raises in this run.
SectionFails(sec) ==
    IF sec = "overview" THEN ~has_date(an_df)
    ELSE FirstCall[sec] \in page_fails

Shows(sec, views) ==
    \E k \in 1..Len(page_out) :
        page_out[k].section = sec /\ page_out[k].view \in views

\* C17 (as claimed): whichever sections fail in a run, every section whose
\* own computation does not fail is rendered as computed, every failing
\* section after the data overview shows its own message or fallback, and
\* the run does not end in the message of the whole page unless the section
\* that failed is the data overview itself.
C17_SectionIsolation ==
    PageRan =>
        /\ \A n \in 1..Len(PageSections) :
              IF SectionFails(PageSections[n])
              THEN PageSections[n] = "overview"
                     \/ Shows(PageSections[n],
                              {"warning", "fallback", "unavailable"})
              ELSE Shows(PageSections[n], {"normal"})
        /\ Shows("page", {"error"}) => SectionFails("overview")

(***************************************************************************)
(* Frame of the store operations                                            *)
(***************************************************************************)
\* C18: a run that deletes a category leaves the store without that name and
\* with every other category under its name and keyword string; a run that
\* edits a keyword text leaves the same names in the same places, the edited
\* category with the new text and every other category with its old one.
C18_DeleteEditFrame ==
    [][ /\ ev'.op = "delete" =>
              /\ ~has_key(categories', ev'.name)
              /\ Len(categories') = Len(categories) - 1
              /\ \A i \in 1..Len(categories) :
                    categories[i].name # ev'.name
                       => /\ has_key(categories', categories[i].name)
                          /\ get_item(categories', categories[i].name)
                                = categories[i].keywords
        /\ ev'.op = "edit" =>
              /\ Len(categories') = Len(categories)
              /\ \A i \in 1..Len(categories) :
                    /\ categories'[i].name = categories[i].name
                    /\ categories'[i].keywords
                          = IF categories[i].name = ev'.name THEN ev'.text
                            ELSE categories[i].keywords ]_vars

\* The second of two categories was edited: the first, added before it,
\* still holds its own keyword string.
C18_Witness ==
    /\ ev.op = "edit"
    /\ Len(categories) = 2
    /\ ev.name = categories[2].name
    /\ categories[2].keywords = ev.text
    /\ categories[1].keywords # <<>>
    /\ categories[1].keywords # ev.text

\* The store operation of event e applied to the mapping c.
StoreOp(c, e) ==
    CASE e.op = "import" -> set_item(c, e.name, preset_keywords(e.name))
      [] e.op = "add"    -> IF e.name = <<>> \/ has_key(c, e.name) THEN c
                            ELSE set_item(c, e.name, <<>>)
      [] e.op = "edit"   -> IF has_key(c, e.name)
                            THEN set_item(c, e.name, e.text) ELSE c
      [] e.op = "delete" -> del_item(c, e.name)
      [] OTHER           -> c

\* C19: every store operation of a session (import, add, edit, delete) ends
\* with the mapping in memory being the operation applied to the mapping
\* before it and with the file holding exactly that mapping: a changed
\* mapping was written in this run, and the next run of the page loads it.
C19_PersistedAfterEachOperation ==
    [][ ev'.op \in {"import", "add", "edit", "delete"} =>
            /\ categories' = StoreOp(categories, ev')
            /\ categories' # categories
                  => file' = save_categories(categories')
            /\ load_categories(file')
                  = [raised |-> FALSE, value |-> categories']
            /\ main(file', NoEvent, kw_df', "nan").categories
                  = categories' ]_vars

\* A preset was imported, a category was added after it and the preset's
\* keyword text was then edited: the file holds the mapping in memory.
C19_Witness ==
    /\ ev.op = "edit"
    /\ Len(categories) = 2
    /\ categories[1].name = preset_name_1
    /\ ev.name = preset_name_1
    /\ categories[1].keywords = ev.text
    /\ ev.text # preset_keywords_1
    /\ file = save_categories(categories)
    /\ load_categories(file).value = categories

(***************************************************************************)
(* Frame of the grouped statistics and the trend                            *)
(***************************************************************************)
\* C20 (as claimed): a call of analyze_by_group, with the single or the
\* two-column key, or of create_rating_trend_chart returns with the caller's
\* table holding the columns and the cell values it held before the call.
C20_InputUnchanged ==
    [][ an_call' \in {"analyze_by_group", "analyze_by_group_list",
                      "create_rating_trend_chart"}
            => /\ an_df'.columns = an_df.columns
               /\ an_df'.rows = an_df.rows
               /\ an_df'.Group = an_df.Group
               /\ an_df'.Month = an_df.Month ]_vars

====
